---- MODULE Spec2Model ----
(***************************************************************************)
(* Model of the Explorer service of riak-explorer-gui                      *)
(* (src/app/services/explorer.js): the map field classifier               *)
(* (collectMapFields, createObjectContents, createObjectFromAjax), the    *)
(* data type operation builder (dataTypeActionFor, dataTypeUpdateCounter, *)
(* dataTypeUpdateSet, dataTypeUpdateNestedField, dataTypeUpdateMap), the  *)
(* deleted cache (markDeletedKey, wasObjectDeleted, createKeyList) and    *)
(* the methods that talk to the Explorer API (updateDataType,             *)
(* deleteObject, getBucketList, getKeyList, cacheRefresh, getRiakObject)  *)
(* and the search schemas of a cluster (createSchema, getCluster).        *)
(*                                                                         *)
(* JSON values are tagged records [t, v]; a JSON object is the sequence   *)
(* of its [k, v] members in insertion order.  The Ember Data store is an  *)
(* arena: a sequence of records, a record reference is its index, and 0   *)
(* stands for undefined.                                                   *)
(***************************************************************************)
EXTENDS Integers, Sequences, FiniteSets, TLC

VARIABLES
  store,      \* the records of the Ember Data store, in creation order
  call,       \* the service method invoked last and its arguments
  operation,  \* the local variable operation of dataTypeActionFor at its end
  result,     \* what the call returned, or the exception it threw
  deleted,    \* the service's cache of the keys deleted through the GUI
  requests,   \* the HTTP requests the call has handed to Ember.$.ajax
  promise     \* the promise the call returned: its state and its value

vars == <<store, call, operation, result, deleted, requests, promise>>

\* what the classifier and the operation builder have no part in
io == <<deleted, requests, promise>>

----------------------------------------------------------------------------
(* Bounds of the model *)

\* most fields (at all nesting levels together) of a generated map payload
MaxFields == 3
\* most levels of nested maps below the top-level map in a generated payload
MaxDepth == 2
\* most records the store holds; record creation stops there
MaxRecords == 6

----------------------------------------------------------------------------
(* JSON values *)

Undefined == [t |-> "undefined", v |-> 0]
Null == [t |-> "null", v |-> 0]
Num(n) == [t |-> "num", v |-> n]
Bool(b) == [t |-> "bool", v |-> b]
Str(s) == [t |-> "str", v |-> s]
Arr(a) == [t |-> "arr", v |-> a]
Obj(members) == [t |-> "obj", v |-> members]
\* a reference to the record of the store with that index
Ref(id) == [t |-> "ref", v |-> id]
Member(key, val) == [k |-> key, v |-> val]

\* a thrown exception, propagated by every operator that receives one
Throw(kind, msg) == [t |-> "throw", v |-> <<kind, msg>>]
IsThrow(x) == x.t = "throw"

\* the keys of a JSON object in insertion order
KeysOf(members) == [i \in 1..Len(members) |-> members[i].k]

\* obj[key]: the value of the member named key, undefined when there is none
Get(val, key) ==
  IF val.t = "obj" /\ \E i \in 1..Len(val.v) : val.v[i].k = key
    THEN LET i == CHOOSE j \in 1..Len(val.v) : val.v[j].k = key IN val.v[i].v
    ELSE Undefined

\* obj[key] = val on the members of an object: replace in place or append
Put(members, key, val) ==
  IF \E i \in 1..Len(members) : members[i].k = key
    THEN [i \in 1..Len(members) |->
            IF members[i].k = key THEN Member(key, val) ELSE members[i]]
    ELSE Append(members, Member(key, val))

\* String.prototype.endsWith
EndsWith_contains(s, suffix) ==
  \E i \in 1..(Len(s) - Len(suffix) + 1) :
    SubSeq(s, i, i + Len(suffix) - 1) = suffix

EndsWith(s, suffix) ==
  /\ Len(s) >= Len(suffix)
  /\ SubSeq(s, Len(s) - Len(suffix) + 1, Len(s)) = suffix

\* the keys a for..in loop visits: the members of an object; nothing for
\* null, undefined, numbers and booleans
ForInKeys(val) == IF val.t = "obj" THEN KeysOf(val.v) ELSE <<>>

----------------------------------------------------------------------------
(* Inputs: buckets, keys and payloads the Explorer API can answer with *)

BucketKinds == {"counter", "set", "map", "default"}

Bucket(kind) ==
  [clusterId |-> "dev", bucketTypeId |-> kind \o "s", bucketId |-> "b1",
   props |-> kind]

Buckets == { Bucket(kind) : kind \in BucketKinds }

Keys == {"k1"}

\* jqXHR.getAllResponseHeaders() of an answered request
RawHeaders == {"ETag: 1"}

\* field names a map payload may carry, in the order the payload lists them
FieldNames ==
  <<"a_counter", "b_set", "b_sets", "c_map", "d_flag", "e_register">>

IsMapName(name) == EndsWith(name, "_map")

SampleValue(name) ==
  CASE EndsWith(name, "_counter") -> Num(5)
    [] EndsWith(name, "_flag") -> Bool(TRUE)
    [] EndsWith(name, "_register") -> Str("hello")
    [] EndsWith(name, "_set") -> Arr(<<"x", "y">>)
    [] OTHER -> Str("other")

\* the member lists over FieldNames[i..] with at most n fields, nested ones
\* included, and at most d levels of nested maps
RECURSIVE GenFields(_, _, _)
GenFields(i, n, d) ==
  IF i > Len(FieldNames) \/ n = 0 THEN {<<>>}
  ELSE LET name == FieldNames[i]
           values(j) ==
             IF IsMapName(name)
               THEN IF d > 0 THEN { Obj(child) : child \in GenFields(1, j, d - 1) }
                             ELSE {}
               ELSE IF j = 0 THEN {SampleValue(name)} ELSE {}
       IN GenFields(i + 1, n, d) \cup
          UNION { { <<Member(name, val)>> \o rest :
                      val \in values(j), rest \in GenFields(i + 1, n - 1 - j, d) } :
                  j \in 0..(n - 1) }

\* the map payload of the classifier's documentation example
ExampleFields ==
  <<Member("a_counter", Num(5)), Member("b_set", Arr(<<"x", "y">>)),
    Member("c_map", Obj(<<Member("d_flag", Bool(TRUE))>>))>>

\* the three-level example of the operation builder
NestedExampleFields ==
  <<Member("settings_map",
      Obj(<<Member("profile_map",
              Obj(<<Member("page_visits_counter", Num(1))>>))>>))>>

\* a map field whose value is not an object
NullMapFields == <<Member("c_map", Null), Member("d_flag", Bool(FALSE))>>

MapValues ==
  { Obj(fields) : fields \in GenFields(1, MaxFields, MaxDepth)
                             \cup {ExampleFields, NestedExampleFields, NullMapFields} }

\* the parsed body of a fetch of a data type object, or the response text
\* of a fetch of a plain object
AjaxPayloads(bucket) ==
  CASE bucket.props = "map" ->
         { Obj(<<Member("type", Str("map")), Member("value", val)>>) : val \in MapValues }
    [] bucket.props = "counter" ->
         { Obj(<<Member("type", Str("counter")), Member("value", Num(7))>>) }
    [] bucket.props = "set" ->
         { Obj(<<Member("type", Str("set")), Member("value", Arr(<<"x", "y">>))>>) }
    [] OTHER -> { Str("plain text") }

----------------------------------------------------------------------------
(* The Ember Data store *)

\* store.createRecord: the new record is appended, its reference is its index
CreateRecord(st, rec) == Append(st, rec)
LastId(st) == Len(st)

\* record.set(attr, val)
SetAttr(st, id, attr, val) ==
  [st EXCEPT ![id] = [a \in DOMAIN st[id] \cup {attr} |->
                        IF a = attr THEN val ELSE st[id][a]]]

FieldModels == {"riak-object.map-field", "riak-object.embedded-map"}
ObjectModels ==
  {"riak-object", "riak-object.counter", "riak-object.set", "riak-object.map"}

\* Bucket.objectModelName
ObjectModelName(bucket) ==
  CASE bucket.props = "counter" -> "riak-object.counter"
    [] bucket.props = "set" -> "riak-object.set"
    [] bucket.props = "map" -> "riak-object.map"
    [] OTHER -> "riak-object"

----------------------------------------------------------------------------
(* collectMapFields *)

BucketNames == {"counters", "flags", "registers", "sets", "maps"}

EmptyContents ==
  Obj(<<Member("counters", Obj(<<>>)), Member("flags", Obj(<<>>)),
        Member("registers", Obj(<<>>)), Member("sets", Obj(<<>>)),
        Member("maps", Obj(<<>>))>>)

\* contents.<bucketName>[fieldName] = field
PutField(contents, bucketName, fieldName, field) ==
  Obj(Put(contents.v, bucketName,
          Obj(Put(Get(contents, bucketName).v, fieldName, Ref(field)))))

\* store.createRecord('riak-object.map-field', {...}) followed by
\* contents.<bucket>[fieldName] = field
CreateMapField_parentIsRoot(acc, fieldType, bucketName, fieldName, rootMap, parentMap, val) ==
  LET st == CreateRecord(acc.store,
              [model |-> "riak-object.map-field", fieldType |-> fieldType,
               name |-> fieldName, rootMap |-> rootMap, parentMap |-> rootMap,
               value |-> val])
  IN [store |-> st,
      contents |-> PutField(acc.contents, bucketName, fieldName, LastId(st))]

CreateMapField_rootIsParent(acc, fieldType, bucketName, fieldName, rootMap, parentMap, val) ==
  LET st == CreateRecord(acc.store,
              [model |-> "riak-object.map-field", fieldType |-> fieldType,
               name |-> fieldName, rootMap |-> parentMap, parentMap |-> parentMap,
               value |-> val])
  IN [store |-> st,
      contents |-> PutField(acc.contents, bucketName, fieldName, LastId(st))]

CreateMapField_renamesParent(acc, fieldType, bucketName, fieldName, rootMap, parentMap, val) ==
  LET st == CreateRecord(acc.store,
              [model |-> "riak-object.map-field", fieldType |-> fieldType,
               name |-> fieldName, rootMap |-> rootMap, parentMap |-> parentMap,
               value |-> val])
  IN [store |-> [st EXCEPT ![parentMap].key = fieldName],
      contents |-> PutField(acc.contents, bucketName, fieldName, LastId(st))]

CreateMapField(acc, fieldType, bucketName, fieldName, rootMap, parentMap, val) ==
  LET st == CreateRecord(acc.store,
              [model |-> "riak-object.map-field", fieldType |-> fieldType,
               name |-> fieldName, rootMap |-> rootMap, parentMap |-> parentMap,
               value |-> val])
  IN [store |-> st,
      contents |-> PutField(acc.contents, bucketName, fieldName, LastId(st))]

\* store.createRecord('riak-object.embedded-map', {...}); value is not set
CreateEmbeddedMap(st, fieldName, rootMap, parentMap) ==
  CreateRecord(st,
    [model |-> "riak-object.embedded-map", fieldType |-> "map",
     name |-> fieldName, rootMap |-> rootMap, parentMap |-> parentMap,
     value |-> Undefined])

RECURSIVE CollectMapFields(_, _, _, _)
RECURSIVE CollectLoop(_, _, _, _, _)

CollectNestedMap_valueNotSet(acc, fieldName, rootMap, parentMap, payload) ==
  LET st1 == CreateEmbeddedMap(acc.store, fieldName, rootMap, parentMap)
      field == LastId(st1)
      mapFields == CollectMapFields(st1, rootMap, field, Get(payload, fieldName))
  IN [store |-> mapFields.store,
      contents |-> PutField(acc.contents, "maps", fieldName, field)]

\* the _map branch of the loop body: the new embedded map is the parentMap
\* of the nested fields, rootMap stays the same
CollectNestedMap(acc, fieldName, rootMap, parentMap, payload) ==
  LET st1 == CreateEmbeddedMap(acc.store, fieldName, rootMap, parentMap)
      field == LastId(st1)
      mapFields == CollectMapFields(st1, rootMap, field, Get(payload, fieldName))
      st2 == SetAttr(mapFields.store, field, "value", mapFields.contents)
  IN [store |-> st2,
      contents |-> PutField(acc.contents, "maps", fieldName, field)]

\* one pass of the for..in loop body, then the rest of the keys
CollectLoop(acc, rootMap, parentMap, payload, keys) ==
  IF keys = <<>> THEN acc
  ELSE
    LET fieldName == Head(keys)
        val == Get(payload, fieldName)
        a1 == IF EndsWith(fieldName, "_counter")
                THEN CreateMapField(acc, "counter", "counters", fieldName, rootMap, parentMap, val)
                ELSE acc
        a2 == IF EndsWith(fieldName, "_flag")
                THEN CreateMapField(a1, "flag", "flags", fieldName, rootMap, parentMap, val)
                ELSE a1
        a3 == IF EndsWith(fieldName, "_register")
                THEN CreateMapField(a2, "register", "registers", fieldName, rootMap, parentMap, val)
                ELSE a2
        a4 == IF EndsWith(fieldName, "_set")
                THEN CreateMapField(a3, "set", "sets", fieldName, rootMap, parentMap, val)
                ELSE a3
        a5 == IF EndsWith(fieldName, "_map")
                THEN CollectNestedMap(a4, fieldName, rootMap, parentMap, payload)
                ELSE a4
    IN CollectLoop(a5, rootMap, parentMap, payload, Tail(keys))

\* returns the store with the new records and the contents hash; the hash
\* holds the reference of each field under its name
CollectMapFields(st, rootMap, parentMap, payload) ==
  CollectLoop([store |-> st, contents |-> EmptyContents], rootMap, parentMap,
              payload, ForInKeys(payload))

----------------------------------------------------------------------------
(* createObjectMetadata, createObjectContents, createObjectFromAjax *)

\* the headers hash of parseHeaderString, kept as the string it is parsed from
ParsedHeaders(rawHeader) == [t |-> "headers", v |-> rawHeader]

CreateObjectMetadata(st, rawHeader) ==
  IF rawHeader = ""
    THEN CreateRecord(st, [model |-> "object-metadata", headers |-> Undefined])
    ELSE CreateRecord(st, [model |-> "object-metadata",
                           headers |-> ParsedHeaders(rawHeader)])

\* getClusterProxyUrl
ApiURL == "/"
GetClusterProxyUrl(clusterId) == ApiURL \o "riak/clusters/" \o clusterId

\* bucket.props.isCRDT
IsCRDT(bucket) == bucket.props \in {"counter", "set", "map"}

\* the url getRiakObject fetches and hands to createObjectFromAjax
ObjectUrl(bucket, key) ==
  LET url == GetClusterProxyUrl(bucket.clusterId) \o "/types/" \o bucket.bucketTypeId
               \o "/buckets/" \o bucket.bucketId
  IN IF IsCRDT(bucket) THEN url \o "/datatypes/" \o key
                       ELSE url \o "/keys/" \o key

\* returns the store and the contents
CreateObjectContents(st, bucket, newObject, payload) ==
  IF bucket.props = "map"
    THEN CollectMapFields(st, newObject, newObject, Get(payload, "value"))
    ELSE [store |-> st, contents |-> payload]

\* returns the store and the reference of the new object
CreateObjectFromAjax(st, key, bucket, rawHeader, payload, url) ==
  LET st1 == CreateObjectMetadata(st, rawHeader)
      metadata == LastId(st1)
      st2 == CreateRecord(st1,
               [model |-> ObjectModelName(bucket), key |-> key, bucket |-> bucket,
                bucketType |-> bucket.bucketTypeId, cluster |-> bucket.clusterId,
                metadata |-> metadata, isLoaded |-> TRUE, rawUrl |-> url,
                contents |-> Undefined])
      newObject == LastId(st2)
      made == CreateObjectContents(st2, bucket, newObject, payload)
  IN [store |-> SetAttr(made.store, newObject, "contents", made.contents),
      object |-> newObject]

----------------------------------------------------------------------------
(* Reading records *)

RecordIds(st) == 1..Len(st)
FieldIds(st) == { id \in RecordIds(st) : st[id].model \in FieldModels }
ObjectIds(st) == { id \in RecordIds(st) : st[id].model \in ObjectModels }

\* record.get('name'), the string "undefined" standing for a missing name
\* where it is used as a property key
NameOf(st, id) == IF "name" \in DOMAIN st[id] THEN Str(st[id].name) ELSE Undefined

\* record.get('parentMap')
ParentMapOf(st, id) ==
  IF "parentMap" \in DOMAIN st[id] THEN Ref(st[id].parentMap) ELSE Undefined

\* record.get('value')
ValueOf(st, id) == IF "value" \in DOMAIN st[id] THEN st[id].value ELSE Undefined

\* record.get('isTopLevel'): true of the top-level map object only
IsTopLevel(st, id) == st[id].model = "riak-object.map"

\* record.get('bucket'): an object's own bucket, a field's root map's bucket
BucketOf(st, id) ==
  IF st[id].model \in ObjectModels THEN st[id].bucket
  ELSE IF st[id].model \in FieldModels THEN st[st[id].rootMap].bucket
  ELSE Undefined

\* the key a value is coerced to when it indexes an object
PropertyKey(val) == IF val.t = "str" THEN val.v ELSE val.t

----------------------------------------------------------------------------
(* JSON.stringify *)

Quote(s) == "\"" \o s \o "\""

RECURSIVE JoinQuoted(_)
JoinQuoted(strs) ==
  IF strs = <<>> THEN ""
  ELSE IF Len(strs) = 1 THEN Quote(strs[1])
  ELSE Quote(strs[1]) \o "," \o JoinQuoted(Tail(strs))

RECURSIVE Stringify(_)
RECURSIVE StringifyMembers(_, _)
\* the members whose value is undefined are left out
StringifyMembers(members, first) ==
  IF members = <<>> THEN ""
  ELSE LET m == Head(members) IN
    IF m.v.t = "undefined" THEN StringifyMembers(Tail(members), first)
    ELSE (IF first THEN "" ELSE ",") \o Quote(m.k) \o ":" \o Stringify(m.v)
           \o StringifyMembers(Tail(members), FALSE)

Stringify(val) ==
  CASE val.t = "num" -> ToString(val.v)
    [] val.t = "bool" -> (IF val.v THEN "true" ELSE "false")
    [] val.t = "str" -> Quote(val.v)
    [] val.t = "arr" -> "[" \o JoinQuoted(val.v) \o "]"
    [] val.t = "obj" -> "{" \o StringifyMembers(val.v, TRUE) \o "}"
    [] OTHER -> "null"

----------------------------------------------------------------------------
(* The operation builder *)

OperationTypes ==
  {"increment", "decrement", "addElement", "removeElement", "addField",
   "editField", "removeField"}

DataTypeUpdateCounter_swapped(props, operationType) ==
  IF operationType = "increment"
    THEN Obj(<<Member("increment", props.decrementBy)>>)
  ELSE IF operationType = "decrement"
    THEN Obj(<<Member("decrement", props.incrementBy)>>)
  ELSE Undefined

\* object.get('incrementBy') and object.get('decrementBy') are read off
\* props, the properties the edit form has bound to the object
DataTypeUpdateCounter(props, operationType) ==
  IF operationType = "increment"
    THEN Obj(<<Member("increment", props.incrementBy)>>)
  ELSE IF operationType = "decrement"
    THEN Obj(<<Member("decrement", props.decrementBy)>>)
  ELSE Undefined

DataTypeUpdateSet_swapped(operationType, element) ==
  IF operationType = "removeElement"
    THEN Obj(<<Member("add", element)>>)
  ELSE IF operationType = "addElement"
    THEN Obj(<<Member("remove", element)>>)
  ELSE Undefined

DataTypeUpdateSet(operationType, element) ==
  IF operationType = "removeElement"
    THEN Obj(<<Member("remove", element)>>)
  ELSE IF operationType = "addElement"
    THEN Obj(<<Member("add", element)>>)
  ELSE Undefined

\* {update: {<name>: subOperation}}
UpdateOf(name, subOperation) ==
  Obj(<<Member("update", Obj(<<Member(PropertyKey(name), subOperation)>>))>>)

NotAnObject(what) == Throw("TypeError", what \o ".get is not a function")

RECURSIVE DataTypeUpdateMap(_, _, _)

DataTypeUpdateMap_wrapsTopLevel(st, field, subOperation) ==
  IF field.t # "ref" THEN NotAnObject("field")
  ELSE
    LET parentField == ParentMapOf(st, field.v) IN
    IF parentField.t # "ref" THEN NotAnObject("parentField")
    ELSE IF IsTopLevel(st, parentField.v)
      THEN UpdateOf(NameOf(st, parentField.v), subOperation)
    ELSE DataTypeUpdateMap(st, parentField,
                           UpdateOf(NameOf(st, parentField.v), subOperation))

DataTypeUpdateMap_oneLevelOnly(st, field, subOperation) ==
  IF field.t # "ref" THEN NotAnObject("field")
  ELSE
    LET parentField == ParentMapOf(st, field.v) IN
    IF parentField.t # "ref" THEN NotAnObject("parentField")
    ELSE IF IsTopLevel(st, parentField.v) THEN subOperation
    ELSE UpdateOf(NameOf(st, parentField.v), subOperation)

DataTypeUpdateMap_ownName(st, field, subOperation) ==
  IF field.t # "ref" THEN NotAnObject("field")
  ELSE
    LET parentField == ParentMapOf(st, field.v) IN
    IF parentField.t # "ref" THEN NotAnObject("parentField")
    ELSE IF IsTopLevel(st, parentField.v) THEN subOperation
    ELSE DataTypeUpdateMap(st, parentField,
                           UpdateOf(NameOf(st, field.v), subOperation))

DataTypeUpdateMap(st, field, subOperation) ==
  IF field.t # "ref" THEN NotAnObject("field")
  ELSE
    LET parentField == ParentMapOf(st, field.v) IN
    IF parentField.t # "ref" THEN NotAnObject("parentField")
    ELSE IF IsTopLevel(st, parentField.v) THEN subOperation
    ELSE DataTypeUpdateMap(st, parentField,
                           UpdateOf(NameOf(st, parentField.v), subOperation))

DataTypeUpdateNestedField_removeKeepsObject(st, object, operationType, item, props) ==
  LET fieldName == NameOf(st, object.v) IN
  CASE operationType = "removeField" ->
         IF item.t # "ref" THEN NotAnObject("item")
         ELSE DataTypeUpdateMap(st, object,
                                Obj(<<Member("remove", NameOf(st, item.v))>>))
    [] operationType \in {"addField", "editField"} ->
         IF item.t # "ref" THEN NotAnObject("item")
         ELSE DataTypeUpdateMap(st, item,
                                UpdateOf(NameOf(st, item.v), ValueOf(st, item.v)))
    [] operationType \in {"addElement", "removeElement"} ->
         DataTypeUpdateMap(st, object,
                           UpdateOf(fieldName, DataTypeUpdateSet(operationType, item)))
    [] operationType \in {"increment", "decrement"} ->
         DataTypeUpdateMap(st, object,
                           UpdateOf(fieldName, DataTypeUpdateCounter(props, operationType)))
    [] OTHER ->
         Throw("Ember.Error", "Unsupported Update Map operation: " \o operationType)

DataTypeUpdateNestedField_fieldNameOfObject(st, object, operationType, item, props) ==
  LET fieldName == NameOf(st, object.v) IN
  CASE operationType = "removeField" ->
         IF item.t # "ref" THEN NotAnObject("item")
         ELSE DataTypeUpdateMap(st, item,
                                Obj(<<Member("remove", NameOf(st, item.v))>>))
    [] operationType \in {"addField", "editField"} ->
         IF item.t # "ref" THEN NotAnObject("item")
         ELSE DataTypeUpdateMap(st, item,
                                UpdateOf(fieldName, ValueOf(st, item.v)))
    [] operationType \in {"addElement", "removeElement"} ->
         DataTypeUpdateMap(st, object,
                           UpdateOf(fieldName, DataTypeUpdateSet(operationType, item)))
    [] operationType \in {"increment", "decrement"} ->
         DataTypeUpdateMap(st, object,
                           UpdateOf(fieldName, DataTypeUpdateCounter(props, operationType)))
    [] OTHER ->
         Throw("Ember.Error", "Unsupported Update Map operation: " \o operationType)

DataTypeUpdateNestedField_editKeepsObject(st, object, operationType, item, props) ==
  LET fieldName == NameOf(st, object.v) IN
  CASE operationType = "removeField" ->
         IF item.t # "ref" THEN NotAnObject("item")
         ELSE DataTypeUpdateMap(st, item,
                                Obj(<<Member("remove", NameOf(st, item.v))>>))
    [] operationType = "addField" ->
         IF item.t # "ref" THEN NotAnObject("item")
         ELSE DataTypeUpdateMap(st, item,
                                UpdateOf(NameOf(st, item.v), ValueOf(st, item.v)))
    [] operationType = "editField" ->
         IF item.t # "ref" THEN NotAnObject("item")
         ELSE DataTypeUpdateMap(st, object,
                                UpdateOf(NameOf(st, item.v), ValueOf(st, item.v)))
    [] operationType \in {"addElement", "removeElement"} ->
         DataTypeUpdateMap(st, object,
                           UpdateOf(fieldName, DataTypeUpdateSet(operationType, item)))
    [] operationType \in {"increment", "decrement"} ->
         DataTypeUpdateMap(st, object,
                           UpdateOf(fieldName, DataTypeUpdateCounter(props, operationType)))
    [] OTHER ->
         Throw("Ember.Error", "Unsupported Update Map operation: " \o operationType)

DataTypeUpdateNestedField_bareLeaf(st, object, operationType, item, props) ==
  LET fieldName == NameOf(st, object.v) IN
  CASE operationType = "removeField" ->
         IF item.t # "ref" THEN NotAnObject("item")
         ELSE DataTypeUpdateMap(st, item,
                                Obj(<<Member("remove", NameOf(st, item.v))>>))
    [] operationType \in {"addField", "editField"} ->
         IF item.t # "ref" THEN NotAnObject("item")
         ELSE DataTypeUpdateMap(st, item,
                                UpdateOf(NameOf(st, item.v), ValueOf(st, item.v)))
    [] operationType \in {"addElement", "removeElement"} ->
         DataTypeUpdateMap(st, object, DataTypeUpdateSet(operationType, item))
    [] operationType \in {"increment", "decrement"} ->
         DataTypeUpdateMap(st, object, DataTypeUpdateCounter(props, operationType))
    [] OTHER ->
         Throw("Ember.Error", "Unsupported Update Map operation: " \o operationType)

DataTypeUpdateNestedField(st, object, operationType, item, props) ==
  LET fieldName == NameOf(st, object.v) IN
  CASE operationType = "removeField" ->
         IF item.t # "ref" THEN NotAnObject("item")
         ELSE DataTypeUpdateMap(st, item,
                                Obj(<<Member("remove", NameOf(st, item.v))>>))
    [] operationType \in {"addField", "editField"} ->
         IF item.t # "ref" THEN NotAnObject("item")
         ELSE DataTypeUpdateMap(st, item,
                                UpdateOf(NameOf(st, item.v), ValueOf(st, item.v)))
    [] operationType \in {"addElement", "removeElement"} ->
         DataTypeUpdateMap(st, object,
                           UpdateOf(fieldName, DataTypeUpdateSet(operationType, item)))
    [] operationType \in {"increment", "decrement"} ->
         DataTypeUpdateMap(st, object,
                           UpdateOf(fieldName, DataTypeUpdateCounter(props, operationType)))
    [] OTHER ->
         Throw("Ember.Error", "Unsupported Update Map operation: " \o operationType)

DataTypeOperation_noCheck(st, object, operationType, item, props) ==
  LET bucket == BucketOf(st, object.v)
  IN IF bucket.props = "counter"
       THEN DataTypeUpdateCounter(props, operationType)
     ELSE IF bucket.props = "set"
       THEN DataTypeUpdateSet(operationType, item)
     ELSE IF bucket.props = "map"
       THEN DataTypeUpdateNestedField(st, object, operationType, item, props)
     ELSE Undefined

DataTypeOperation_defaultIsCounter(st, object, operationType, item, props) ==
  LET bucket == BucketOf(st, object.v)
      built ==
        IF bucket.props = "set"
          THEN DataTypeUpdateSet(operationType, item)
        ELSE IF bucket.props = "map"
          THEN DataTypeUpdateNestedField(st, object, operationType, item, props)
        ELSE DataTypeUpdateCounter(props, operationType)
  IN IF built.t = "undefined"
       THEN Throw("Ember.Error",
                  "Invalid data type or unsupported operation: " \o operationType)
       ELSE built

\* dataTypeActionFor up to its return statement: the value of operation, or
\* the exception thrown
DataTypeOperation(st, object, operationType, item, props) ==
  LET bucket == BucketOf(st, object.v)
      built ==
        IF bucket.props = "counter"
          THEN DataTypeUpdateCounter(props, operationType)
        ELSE IF bucket.props = "set"
          THEN DataTypeUpdateSet(operationType, item)
        ELSE IF bucket.props = "map"
          THEN DataTypeUpdateNestedField(st, object, operationType, item, props)
        ELSE Undefined
  IN IF built.t = "undefined"
       THEN Throw("Ember.Error",
                  "Invalid data type or unsupported operation: " \o operationType)
       ELSE built

\* return JSON.stringify(operation)
ActionString(built) == IF IsThrow(built) THEN built ELSE Str(Stringify(built))

----------------------------------------------------------------------------
(* Specification *)

NoCall == [method |-> "none", args |-> <<>>]

\* deleted: { clusters: {} }
NoneDeleted == Obj(<<Member("clusters", Obj(<<>>))>>)

NoPromise == [state |-> "none", value |-> Undefined]

Init ==
  /\ store = <<>>
  /\ call = NoCall
  /\ operation = Undefined
  /\ result = Undefined
  /\ deleted = NoneDeleted
  /\ requests = <<>>
  /\ promise = NoPromise

\* a fetched object becomes records: getRiakObject hands the response to
\* createObjectFromAjax
CreateObject(key, bucket, rawHeader, payload) ==
  LET made == CreateObjectFromAjax(store, key, bucket, rawHeader, payload,
                                   ObjectUrl(bucket, key))
  IN /\ call = NoCall
     /\ Len(made.store) <= MaxRecords
     /\ store' = made.store
     /\ call' = [method |-> "createObjectFromAjax",
                 args |-> <<Str(key), bucket, Str(rawHeader), payload>>]
     /\ operation' = Undefined
     /\ result' = Ref(made.object)
     /\ UNCHANGED io

IncrementAmounts == {Num(3)}
DecrementAmounts == {Num(2)}
Elements == {Str("x")}

\* the items a caller passes with an operation type: a set element with the
\* set operations, nothing with the counter operations, and with the field
\* operations a field (of a counter, flag, register or set value when it is
\* added or edited) or nothing
ItemsFor(operationType) ==
  CASE operationType \in {"addElement", "removeElement"} -> Elements
    [] operationType \in {"addField", "editField"} ->
         { Ref(f) : f \in { g \in FieldIds(store) : store[g].fieldType # "map" } }
           \cup {Undefined}
    [] operationType = "removeField" ->
         { Ref(f) : f \in FieldIds(store) } \cup {Undefined}
    [] OTHER -> {Undefined}

\* operation types the builder does not know
UnknownOperationTypes == {"bogus", "update"}

DataTypeActionFor(object, operationType, item, props) ==
  LET built == DataTypeOperation(store, Ref(object), operationType, item, props)
  IN /\ call = NoCall
     /\ call' = [method |-> "dataTypeActionFor",
                 args |-> <<Ref(object), Str(operationType), item, props>>]
     /\ operation' = built
     /\ result' = ActionString(built)
     /\ UNCHANGED <<store, io>>

SubOperations ==
  { Obj(<<Member("remove", Str("f"))>>),
    Obj(<<Member("update", Obj(<<Member("n_counter", Num(1))>>))>>) }

WrapOperation(field, subOperation) ==
  /\ call = NoCall
  /\ call' = [method |-> "dataTypeUpdateMap", args |-> <<Ref(field), subOperation>>]
  /\ operation' = Undefined
  /\ result' = DataTypeUpdateMap(store, Ref(field), subOperation)
  /\ UNCHANGED <<store, io>>

\* the caller has taken what the call returned or threw, or what the promise
\* it returned has settled with; the service is ready for the next call
Return ==
  /\ call # NoCall
  /\ promise.state # "pending"
  /\ call' = NoCall
  /\ operation' = Undefined
  /\ result' = Undefined
  /\ requests' = <<>>
  /\ promise' = NoPromise
  /\ UNCHANGED <<store, deleted>>

Next ==
  \/ Return
  \/ /\ call = NoCall
     /\ Len(store) + 2 <= MaxRecords
     /\ \E bucket \in Buckets, key \in Keys, rawHeader \in RawHeaders :
          \E payload \in AjaxPayloads(bucket) :
            CreateObject(key, bucket, rawHeader, payload)
  \/ \E object \in ObjectIds(store) \cup FieldIds(store),
        operationType \in OperationTypes \cup UnknownOperationTypes :
       \E item \in ItemsFor(operationType),
          incrementBy \in IncrementAmounts, decrementBy \in DecrementAmounts :
         DataTypeActionFor(object, operationType, item,
                           [incrementBy |-> incrementBy, decrementBy |-> decrementBy])
  \/ \E field \in FieldIds(store), subOperation \in SubOperations :
       WrapOperation(field, subOperation)

Spec == Init /\ [][Next]_vars

----------------------------------------------------------------------------
(* The deleted cache: deletedCacheFor, markDeletedKey, wasObjectDeleted *)

\* members every object literal inherits from Object.prototype
ObjectPrototypeNames ==
  {"constructor", "toString", "valueOf", "hasOwnProperty"}

Inherited(key) == [t |-> "function", v |-> key]

\* obj[key] on an object literal: its own member, else the inherited one
GetProperty(val, key) ==
  IF val.t = "obj" /\ \E i \in 1..Len(val.v) : val.v[i].k = key
    THEN Get(val, key)
  ELSE IF val.t = "obj" /\ key \in ObjectPrototypeNames THEN Inherited(key)
  ELSE Undefined

\* the values an if or a ! takes for true
Truthy(val) ==
  CASE val.t \in {"undefined", "null"} -> FALSE
    [] val.t = "bool" -> val.v
    [] val.t = "num" -> val.v # 0
    [] val.t = "str" -> val.v # ""
    [] OTHER -> TRUE

\* Body(val), with val computed once
With(val, Body(_)) == CHOOSE made \in { Body(v) : v \in {val} } : TRUE

\* val.a.b.c: reading a property of undefined throws
RECURSIVE ReadPath(_, _)
ReadPath(val, path) ==
  IF path = <<>> THEN val
  ELSE With(val, LAMBDA at :
         IF at.t \in {"undefined", "null"}
           THEN Throw("TypeError",
                      "Cannot read property '" \o Head(path) \o "' of undefined")
           ELSE ReadPath(GetProperty(at, Head(path)), Tail(path)))

\* val.a.b.c = new, where val.a.b is an object of val's own
RECURSIVE WritePath(_, _, _)
WritePath(val, path, new) ==
  With(val, LAMBDA at :
    IF Len(path) = 1 THEN Obj(Put(at.v, path[1], new))
    ELSE Obj(Put(at.v, path[1], WritePath(Get(at, path[1]), Tail(path), new))))

TypePath(clusterId, bucketTypeId) ==
  <<"clusters", clusterId, "types", bucketTypeId>>

\* returns the cache as the call leaves it and the hash the call returns
DeletedCacheFor(del, clusterId, bucketTypeId) ==
  With(IF ~Truthy(ReadPath(del, <<"clusters", clusterId>>))
         THEN WritePath(del, <<"clusters", clusterId>>,
                        Obj(<<Member("types", Obj(<<>>))>>))
         ELSE del,
       LAMBDA d1 :
    With(ReadPath(d1, TypePath(clusterId, bucketTypeId)), LAMBDA found :
      IF IsThrow(found) THEN [deleted |-> d1, value |-> found]
      ELSE With(IF ~Truthy(found)
                  THEN WritePath(d1, TypePath(clusterId, bucketTypeId),
                                 Obj(<<Member("buckets", Obj(<<>>))>>))
                  ELSE d1,
                LAMBDA d2 :
             [deleted |-> d2,
              value |-> ReadPath(d2, TypePath(clusterId, bucketTypeId))])))

\* object.get('clusterId'), 'bucketTypeId', 'bucketId' and 'key' of an object
ClusterIdOf(st, id) == st[id].bucket.clusterId
BucketTypeIdOf(st, id) == st[id].bucket.bucketTypeId
BucketIdOf(st, id) == st[id].bucket.bucketId
KeyOf(st, id) == st[id].key

BucketPath(clusterId, bucketTypeId, bucketId) ==
  TypePath(clusterId, bucketTypeId) \o <<"buckets", bucketId>>

\* markDeletedKey on the ids of its object: the cache as the call leaves it
\* and what the call returns or throws
MarkDeletedKeyIn(del, clusterId, bucketTypeId, bucketId, key) ==
  With(DeletedCacheFor(del, clusterId, bucketTypeId), LAMBDA got :
    IF IsThrow(got.value) THEN got
    ELSE With(ReadPath(got.value, <<"buckets", bucketId>>), LAMBDA entry :
      IF IsThrow(entry) THEN [deleted |-> got.deleted, value |-> entry]
      ELSE With(IF ~Truthy(entry)
                  THEN WritePath(got.deleted,
                                 BucketPath(clusterId, bucketTypeId, bucketId),
                                 Obj(<<Member("keysDeleted", Obj(<<>>)),
                                       Member("bucketDeleted", Bool(FALSE))>>))
                  ELSE got.deleted,
                LAMBDA d1 :
             IF ReadPath(d1, BucketPath(clusterId, bucketTypeId, bucketId)
                               \o <<"keysDeleted">>).t # "obj"
               THEN [deleted |-> d1,
                     value |-> Throw("TypeError",
                                     "Cannot set property '" \o key \o "' of undefined")]
               ELSE [deleted |-> WritePath(d1,
                                   BucketPath(clusterId, bucketTypeId, bucketId)
                                     \o <<"keysDeleted", key>>,
                                   Bool(TRUE)),
                     value |-> Undefined])))

\* wasObjectDeleted on the ids of its object
WasObjectDeletedIn(del, clusterId, bucketTypeId, bucketId, key) ==
  With(DeletedCacheFor(del, clusterId, bucketTypeId), LAMBDA got :
    IF IsThrow(got.value) THEN got
    ELSE With(ReadPath(got.value, <<"buckets", bucketId>>), LAMBDA entry :
      IF IsThrow(entry) THEN [deleted |-> got.deleted, value |-> entry]
      ELSE IF ~Truthy(entry) THEN [deleted |-> got.deleted, value |-> Bool(FALSE)]
      ELSE [deleted |-> got.deleted,
            value |-> ReadPath(entry, <<"keysDeleted", key>>)]))

MarkDeletedKey(object) ==
  /\ call = NoCall
  /\ \E marked \in {MarkDeletedKeyIn(deleted, ClusterIdOf(store, object),
                                      BucketTypeIdOf(store, object),
                                      BucketIdOf(store, object),
                                      KeyOf(store, object))} :
       /\ call' = [method |-> "markDeletedKey", args |-> <<Ref(object)>>]
       /\ deleted' = marked.deleted
       /\ result' = marked.value
       /\ operation' = Undefined
       /\ UNCHANGED <<store, requests, promise>>

WasObjectDeleted(object) ==
  /\ call = NoCall
  /\ \E read \in {WasObjectDeletedIn(deleted, ClusterIdOf(store, object),
                                      BucketTypeIdOf(store, object),
                                      BucketIdOf(store, object),
                                      KeyOf(store, object))} :
       /\ call' = [method |-> "wasObjectDeleted", args |-> <<Ref(object)>>]
       /\ deleted' = read.deleted
       /\ result' = read.value
       /\ operation' = Undefined
       /\ UNCHANGED <<store, requests, promise>>

----------------------------------------------------------------------------
(* createKeyList *)

PageSize == 500

\* the body of a 'fetch cached key list' answer
KeyListData(keys) ==
  Obj(<<Member("keys",
          Obj(<<Member("keys", Arr(keys)), Member("total", Num(Len(keys))),
                Member("count", Num(Len(keys))), Member("created", Str("now"))>>))>>)

KeyListAnswers == { KeyListData(<<"k1", "constructor">>), Null }

\* the callback of data.keys.keys.map(...): one record for the key, marked
\* when the cache says so; acc carries the store, the cache, the records
\* made and what was thrown
CreateKey(acc, bucket, key) ==
  With(CreateRecord(acc.store,
         [model |-> ObjectModelName(bucket), key |-> key,
          bucket |-> bucket, bucketType |-> bucket.bucketTypeId,
          cluster |-> bucket.clusterId, isLoaded |-> FALSE]),
       LAMBDA st1 :
    With(WasObjectDeletedIn(acc.deleted, ClusterIdOf(st1, LastId(st1)),
                            BucketTypeIdOf(st1, LastId(st1)),
                            BucketIdOf(st1, LastId(st1)), KeyOf(st1, LastId(st1))),
         LAMBDA read :
      [store |-> IF ~IsThrow(read.value) /\ Truthy(read.value)
                   THEN SetAttr(st1, LastId(st1), "markedDeleted", TRUE)
                   ELSE st1,
       deleted |-> read.deleted,
       keys |-> Append(acc.keys, Ref(LastId(st1))),
       thrown |-> IF IsThrow(read.value) THEN read.value ELSE Undefined]))

\* data.keys.keys.map(...): the keys in their order, each on what the one
\* before it has left
RECURSIVE CreateKeys(_, _, _)
CreateKeys(acc, bucket, keys) ==
  IF keys = <<>> \/ IsThrow(acc.thrown) THEN acc
  ELSE With(CreateKey(acc, bucket, Head(keys)),
            LAMBDA next : CreateKeys(next, bucket, Tail(keys)))

\* returns the store, the cache and the key list made, or what was thrown
CreateKeyListIn(st, del, data, bucket, startItemIndex) ==
  IF ~Truthy(data)
    THEN [store |-> CreateRecord(st, [model |-> "key-list", bucket |-> bucket,
                                      cluster |-> bucket.clusterId, keys |-> <<>>]),
          deleted |-> del, value |-> Ref(Len(st) + 1)]
    ELSE With(CreateKeys([store |-> st, deleted |-> del, keys |-> <<>>,
                          thrown |-> Undefined],
                         bucket, ReadPath(data, <<"keys", "keys">>).v),
              LAMBDA made :
           IF IsThrow(made.thrown)
             THEN [store |-> made.store, deleted |-> made.deleted,
                   value |-> made.thrown]
             ELSE [store |-> CreateRecord(made.store,
                               [model |-> "key-list", bucket |-> bucket,
                                cluster |-> bucket.clusterId,
                                created |-> ReadPath(data, <<"keys", "created">>),
                                count |-> ReadPath(data, <<"keys", "count">>),
                                keys |-> made.keys,
                                total |-> ReadPath(data, <<"keys", "total">>),
                                firstItemIndex |-> startItemIndex,
                                pageSize |-> PageSize]),
                   deleted |-> made.deleted,
                   value |-> Ref(Len(made.store) + 1)])

CreateKeyList(data, bucket) ==
  /\ call = NoCall
  /\ \E made \in {CreateKeyListIn(store, deleted, data, bucket, Num(1))} :
       /\ Len(made.store) <= MaxRecords
       /\ call' = [method |-> "createKeyList", args |-> <<data, bucket>>]
       /\ store' = made.store
       /\ deleted' = made.deleted
       /\ result' = made.value
       /\ operation' = Undefined
       /\ UNCHANGED <<requests, promise>>

----------------------------------------------------------------------------
(* Promises and requests *)

Pending == [state |-> "pending", value |-> Undefined]

\* resolve(value) and reject(value): the first of them settles the promise,
\* the later ones have no effect
Settle(p, state, value) ==
  IF p.state = "pending" THEN [state |-> state, value |-> value] ELSE p

\* new Ember.RSVP.Promise(executor) with an executor that throws
RejectedWith(error) == Settle(Pending, "rejected", error)

\* Ember.$.ajax(hash)
Request(type, url, data) ==
  [type |-> type, url |-> url, data |-> data, state |-> "sent",
   answer |-> Undefined]

\* an answer of the server as jQuery reports it
Answer(status, textStatus, data) ==
  [t |-> "answer", status |-> status, textStatus |-> textStatus, data |-> data]

IsSuccess(answer) == answer.textStatus \in {"success", "nocontent"}

\* the first request of the call has been answered
Answered(reqs, answer) ==
  [reqs EXCEPT ![1].state = "answered", ![1].answer = answer]

AwaitsAnswer(method) ==
  /\ call.method = method
  /\ promise.state = "pending"
  /\ requests # <<>>
  /\ requests[1].state = "sent"

----------------------------------------------------------------------------
(* updateDataType *)

\* object.get('key') of an object, and of a field the key of its root map
RecordKeyOf(st, id) ==
  IF st[id].model \in FieldModels THEN st[st[id].rootMap].key ELSE st[id].key

DataTypeUrl(bucket, key) ==
  GetClusterProxyUrl(bucket.clusterId) \o "/types/" \o bucket.bucketTypeId
    \o "/buckets/" \o bucket.bucketId \o "/datatypes/" \o key

UpdateDataType_sendsAnyway(object, operationType, item, props) ==
  LET bucket == BucketOf(store, object)
      data == ActionString(DataTypeOperation(store, Ref(object), operationType,
                                             item, props))
  IN /\ call = NoCall
     /\ call' = [method |-> "updateDataType",
                 args |-> <<Ref(object), Str(operationType), item, props>>]
     /\ requests' = <<Request("POST", DataTypeUrl(bucket, RecordKeyOf(store, object)),
                              data)>>
     /\ promise' = Pending
     /\ operation' = Undefined
     /\ result' = Undefined
     /\ UNCHANGED <<store, deleted>>

\* the executor builds the ajax hash, data included, before Ember.$.ajax is
\* called; what dataTypeActionFor throws there rejects the promise
UpdateDataType(object, operationType, item, props) ==
  LET bucket == BucketOf(store, object)
      data == ActionString(DataTypeOperation(store, Ref(object), operationType,
                                             item, props))
  IN /\ call = NoCall
     /\ call' = [method |-> "updateDataType",
                 args |-> <<Ref(object), Str(operationType), item, props>>]
     /\ IF IsThrow(data)
          THEN /\ requests' = <<>>
               /\ promise' = RejectedWith(data)
          ELSE /\ requests' = <<Request("POST",
                                        DataTypeUrl(bucket, RecordKeyOf(store, object)),
                                        data)>>
               /\ promise' = Pending
     /\ operation' = Undefined
     /\ result' = Undefined
     /\ UNCHANGED <<store, deleted>>

UpdateAnswers ==
  { Answer(200, "success", Obj(<<Member("type", Str("counter"))>>)),
    Answer(204, "parsererror", Undefined), Answer(500, "error", Undefined) }

\* the success and error callbacks of updateDataType
UpdateDataTypeAnswered(answer) ==
  /\ AwaitsAnswer("updateDataType")
  /\ requests' = Answered(requests, answer)
  /\ promise' = IF IsSuccess(answer) THEN Settle(promise, "fulfilled", answer.data)
                ELSE IF answer.status = 204
                  THEN Settle(promise, "fulfilled", Num(answer.status))
                ELSE Settle(promise, "rejected", Num(answer.status))
  /\ UNCHANGED <<store, call, operation, result, deleted>>

----------------------------------------------------------------------------
(* deleteObject *)

KeyUrl(st, object) ==
  GetClusterProxyUrl(ClusterIdOf(st, object)) \o "/types/"
    \o BucketTypeIdOf(st, object) \o "/buckets/" \o BucketIdOf(st, object)
    \o "/keys/" \o KeyOf(st, object)

\* object.get('metadata').get('causalContext'): the headers of the metadata
CausalContext(st, object) == st[st[object].metadata].headers

DeleteObject(object) ==
  /\ call = NoCall
  /\ call' = [method |-> "deleteObject", args |-> <<Ref(object)>>]
  /\ store' = SetAttr(store, object, "markedDeleted", TRUE)
  /\ requests' = <<Request("DELETE", KeyUrl(store, object),
                           CausalContext(store, object))>>
  /\ promise' = Pending
  /\ operation' = Undefined
  /\ result' = Undefined
  /\ UNCHANGED deleted

DeleteAnswers ==
  { Answer(204, "nocontent", Undefined), Answer(404, "error", Undefined) }

\* resolve(jqXHR.status) or reject(textStatus); the promise deleteObject
\* returned is request.catch(log), which a rejection fulfils with undefined
DeleteObjectAnswered(answer) ==
  /\ AwaitsAnswer("deleteObject")
  /\ requests' = Answered(requests, answer)
  /\ promise' = IF IsSuccess(answer)
                  THEN Settle(promise, "fulfilled", Num(answer.status))
                  ELSE Settle(promise, "fulfilled", Undefined)
  /\ UNCHANGED <<store, call, operation, result, deleted>>

----------------------------------------------------------------------------
(* getBucketList, createBucketList, bucketCacheRefresh *)

ClusterIds == {"dev"}
BucketTypeIds == {"maps"}

\* store.findRecord('cluster', clusterId) and the bucket types of the
\* cluster: the records getBucketList is handed
FindCluster(clusterId, developmentMode, bucketTypeId) ==
  LET st1 == CreateRecord(store, [model |-> "cluster", id |-> clusterId,
                                  developmentMode |-> developmentMode])
      st2 == CreateRecord(st1, [model |-> "bucket-type", cluster |-> LastId(st1),
                                bucketTypeId |-> bucketTypeId])
  IN /\ call = NoCall
     /\ \A id \in 1..Len(store) : store[id].model # "cluster"
     /\ Len(st2) <= MaxRecords
     /\ call' = [method |-> "findRecord", args |-> <<Str(clusterId)>>]
     /\ store' = st2
     /\ result' = Ref(LastId(st1))
     /\ operation' = Undefined
     /\ UNCHANGED io

Clusters(st) == { id \in 1..Len(st) : st[id].model = "cluster" }
BucketTypes(st) == { id \in 1..Len(st) : st[id].model = "bucket-type" }

BucketListUrl(clusterId, bucketTypeId, start, rows) ==
  ApiURL \o "explore/clusters/" \o clusterId \o "/bucket_types/" \o bucketTypeId
    \o "/buckets?start=" \o ToString(start) \o "&rows=" \o ToString(rows)

RefreshBucketsUrl(clusterId, bucketTypeId) ==
  ApiURL \o "explore/clusters/" \o clusterId \o "/bucket_types/" \o bucketTypeId
    \o "/refresh_buckets/source/riak_kv"

\* cacheRefresh(url) as far as its request
CacheRefreshRequest(url) == Request("POST", url, Undefined)

GetBucketList(cluster, bucketType) ==
  /\ call = NoCall
  /\ Len(store) + 2 <= MaxRecords
  /\ call' = [method |-> "getBucketList", args |-> <<Ref(cluster), Ref(bucketType)>>]
  /\ requests' = <<Request("GET",
                           BucketListUrl(store[cluster].id,
                                         store[bucketType].bucketTypeId, 1, PageSize),
                           Undefined)>>
  /\ promise' = Pending
  /\ operation' = Undefined
  /\ result' = Undefined
  /\ UNCHANGED <<store, deleted>>

\* the body of a 'fetch cached bucket list' answer
BucketListData(names) ==
  Obj(<<Member("buckets",
          Obj(<<Member("buckets", Arr(names)), Member("total", Num(Len(names))),
                Member("count", Num(Len(names))), Member("created", Str("now"))>>))>>)

RECURSIVE CreateBuckets(_, _, _, _)
CreateBuckets(acc, cluster, bucketType, names) ==
  IF names = <<>> THEN acc
  ELSE LET st1 == CreateRecord(acc.store,
                    [model |-> "bucket", name |-> Head(names), cluster |-> cluster,
                     bucketType |-> bucketType])
       IN CreateBuckets([store |-> st1, buckets |-> Append(acc.buckets, Ref(LastId(st1)))],
                        cluster, bucketType, Tail(names))

\* returns the store with the bucket list as its last record
CreateBucketList(st, data, cluster, bucketType, startItemIndex) ==
  IF ~Truthy(data)
    THEN CreateRecord(st, [model |-> "bucket-list", cluster |-> cluster,
                           bucketType |-> bucketType, buckets |-> <<>>])
    ELSE LET made == CreateBuckets([store |-> st, buckets |-> <<>>], cluster,
                                   bucketType, ReadPath(data, <<"buckets", "buckets">>).v)
         IN CreateRecord(made.store,
              [model |-> "bucket-list", cluster |-> cluster,
               bucketType |-> bucketType, buckets |-> made.buckets,
               total |-> ReadPath(data, <<"buckets", "total">>),
               count |-> ReadPath(data, <<"buckets", "count">>),
               created |-> ReadPath(data, <<"buckets", "created">>),
               isLoaded |-> TRUE, firstItemIndex |-> startItemIndex,
               pageSize |-> PageSize])

BucketListAnswers ==
  { Answer(200, "success", BucketListData(<<"b1">>)),
    Answer(404, "error", Undefined), Answer(500, "error", Undefined) }

RefreshingMessage ==
  "Cache not found. Refreshing from a streaming list buckets call..."

\* what the error callback does on a 404: the store and the requests after it
NotFoundBucketList_neverRefreshes(cluster, bucketType, answer) ==
  LET st1 == CreateBucketList(store, Null, cluster, bucketType, Undefined)
      emptyList == LastId(st1)
  IN IF store[cluster].developmentMode
       THEN [store |-> SetAttr(SetAttr(st1, bucketType, "isBucketListLoaded", FALSE),
                               emptyList, "statusMessage", RefreshingMessage),
             requests |-> Answered(requests, answer),
             emptyList |-> emptyList]
       ELSE [store |-> SetAttr(SetAttr(st1, bucketType, "isBucketListLoaded", TRUE),
                               emptyList, "cachePresent", FALSE),
             requests |-> Answered(requests, answer),
             emptyList |-> emptyList]

NotFoundBucketList(cluster, bucketType, answer) ==
  LET st1 == CreateBucketList(store, Null, cluster, bucketType, Undefined)
      emptyList == LastId(st1)
  IN IF store[cluster].developmentMode
       THEN [store |-> SetAttr(SetAttr(st1, bucketType, "isBucketListLoaded", FALSE),
                               emptyList, "statusMessage", RefreshingMessage),
             requests |-> Append(Answered(requests, answer),
                                 CacheRefreshRequest(
                                   RefreshBucketsUrl(store[cluster].id,
                                                     store[bucketType].bucketTypeId))),
             emptyList |-> emptyList]
       ELSE [store |-> SetAttr(SetAttr(st1, bucketType, "isBucketListLoaded", TRUE),
                               emptyList, "cachePresent", FALSE),
             requests |-> Answered(requests, answer),
             emptyList |-> emptyList]

\* the success and error callbacks of getBucketList
GetBucketListAnswered(answer) ==
  LET cluster == call.args[1].v
      bucketType == call.args[2].v
  IN /\ AwaitsAnswer("getBucketList")
     /\ IF IsSuccess(answer)
          THEN LET st1 == CreateBucketList(
                            SetAttr(store, bucketType, "isBucketListLoaded", TRUE),
                            answer.data, cluster, bucketType, Num(1))
               IN /\ Len(st1) <= MaxRecords
                  /\ store' = st1
                  /\ requests' = Answered(requests, answer)
                  /\ promise' = Settle(promise, "fulfilled", Ref(LastId(st1)))
        ELSE IF answer.status = 404
          THEN LET done == NotFoundBucketList(cluster, bucketType, answer)
               IN /\ Len(done.store) <= MaxRecords
                  /\ store' = done.store
                  /\ requests' = done.requests
                  /\ promise' = Settle(promise, "fulfilled", Ref(done.emptyList))
        ELSE /\ store' = store
             /\ requests' = Answered(requests, answer)
             /\ promise' = Settle(promise, "rejected", Str(answer.textStatus))
     /\ UNCHANGED <<call, operation, result, deleted>>

----------------------------------------------------------------------------
(* Specifications of the deleted cache and of the calls to the Explorer API *)

\* the map payloads objects are fetched with here
ServiceMapValues ==
  { Obj(<<Member("a_counter", Num(5))>>),
    Obj(<<Member("c_map", Obj(<<Member("d_flag", Bool(TRUE))>>))>>) }

ServicePayloads(bucket) ==
  IF bucket.props = "map"
    THEN { Obj(<<Member("type", Str("map")), Member("value", val)>>) :
             val \in ServiceMapValues }
    ELSE AjaxPayloads(bucket)

\* the objects that have been fetched: they carry their metadata
LoadedObjects(st) == { id \in ObjectIds(st) : "metadata" \in DOMAIN st[id] }

\* the buckets whose objects are fetched, listed and deleted here
ServiceBuckets == { Bucket(kind) : kind \in {"counter", "map", "default"} }

\* the buckets whose keys are listed and deleted
CacheBuckets == { Bucket(kind) : kind \in {"counter", "map"} }

\* fetching objects, building operations, and the deleted cache
CacheNext ==
  \/ Return
  \/ /\ call = NoCall
     /\ Len(store) + 2 <= MaxRecords
     /\ \E bucket \in CacheBuckets, key \in Keys, rawHeader \in RawHeaders :
          \E payload \in ServicePayloads(bucket) :
            CreateObject(key, bucket, rawHeader, payload)
  \/ \E object \in ObjectIds(store) \cup FieldIds(store),
        operationType \in OperationTypes \cup UnknownOperationTypes :
       \E item \in ItemsFor(operationType),
          incrementBy \in IncrementAmounts, decrementBy \in DecrementAmounts :
         DataTypeActionFor(object, operationType, item,
                           [incrementBy |-> incrementBy, decrementBy |-> decrementBy])
  \/ \E object \in ObjectIds(store) : MarkDeletedKey(object)
  \/ \E object \in ObjectIds(store) : WasObjectDeleted(object)
  \/ /\ call = NoCall
     /\ Len(store) + 1 <= MaxRecords
     /\ \E data \in KeyListAnswers, bucket \in CacheBuckets :
          CreateKeyList(data, bucket)
  \/ \E object \in LoadedObjects(store) : DeleteObject(object)
  \/ \E answer \in DeleteAnswers : DeleteObjectAnswered(answer)

CacheSpec == Init /\ [][CacheNext]_vars

\* fetching objects and the calls that post to or read from the Explorer API
ApiNext ==
  \/ Return
  \/ /\ call = NoCall
     /\ Len(store) + 2 <= MaxRecords
     /\ \E bucket \in ServiceBuckets, key \in Keys, rawHeader \in RawHeaders :
          \E payload \in ServicePayloads(bucket) :
            CreateObject(key, bucket, rawHeader, payload)
  \/ \E object \in ObjectIds(store) \cup FieldIds(store),
        operationType \in OperationTypes \cup UnknownOperationTypes :
       \E item \in ItemsFor(operationType),
          incrementBy \in IncrementAmounts, decrementBy \in DecrementAmounts :
         UpdateDataType(object, operationType, item,
                        [incrementBy |-> incrementBy, decrementBy |-> decrementBy])
  \/ \E answer \in UpdateAnswers : UpdateDataTypeAnswered(answer)
  \/ \E clusterId \in ClusterIds, developmentMode \in BOOLEAN,
        bucketTypeId \in BucketTypeIds :
       FindCluster(clusterId, developmentMode, bucketTypeId)
  \/ \E cluster \in Clusters(store), bucketType \in BucketTypes(store) :
       GetBucketList(cluster, bucketType)
  \/ \E answer \in BucketListAnswers : GetBucketListAnswered(answer)

ApiSpec == Init /\ [][ApiNext]_vars

----------------------------------------------------------------------------
(* cacheRefresh, bucketCacheRefresh, keyCacheRefresh *)

BucketIds == {"b1"}

RefreshKeysUrl(clusterId, bucketTypeId, bucketId) ==
  ApiURL \o "explore/clusters/" \o clusterId \o "/bucket_types/" \o bucketTypeId
    \o "/buckets/" \o bucketId \o "/refresh_keys/source/riak_kv"

\* the urls bucketCacheRefresh and keyCacheRefresh hand to cacheRefresh
RefreshUrls ==
  { RefreshBucketsUrl(clusterId, bucketTypeId) :
      clusterId \in ClusterIds, bucketTypeId \in BucketTypeIds }
    \cup { RefreshKeysUrl(clusterId, bucketTypeId, bucketId) :
             clusterId \in ClusterIds, bucketTypeId \in BucketTypeIds,
             bucketId \in BucketIds }

CacheRefresh(url) ==
  /\ call = NoCall
  /\ call' = [method |-> "cacheRefresh", args |-> <<Str(url)>>]
  /\ requests' = <<CacheRefreshRequest(url)>>
  /\ promise' = Pending
  /\ operation' = Undefined
  /\ result' = Undefined
  /\ UNCHANGED <<store, deleted>>

\* 202 Accepted with an empty body is a parsererror to jQuery
RefreshAnswers ==
  { Answer(200, "success", Obj(<<>>)), Answer(204, "nocontent", Undefined),
    Answer(202, "parsererror", Undefined), Answer(202, "error", Undefined),
    Answer(200, "parsererror", Undefined), Answer(404, "error", Undefined),
    Answer(500, "error", Undefined), Answer(0, "timeout", Undefined) }

\* the failure callback of cacheRefresh: resolve, when it is called, is
\* followed by reject
CacheRefreshFailed_rejectFirst(p, answer) ==
  IF answer.status = 202 /\ answer.textStatus = "parsererror"
    THEN Settle(Settle(p, "rejected", Str(answer.textStatus)),
                "fulfilled", Num(answer.status))
    ELSE Settle(p, "rejected", Str(answer.textStatus))

CacheRefreshFailed(p, answer) ==
  Settle(IF answer.status = 202 /\ answer.textStatus = "parsererror"
           THEN Settle(p, "fulfilled", Num(answer.status))
           ELSE p,
         "rejected", Str(answer.textStatus))

\* the callbacks of cacheRefresh
CacheRefreshAnswered(answer) ==
  /\ AwaitsAnswer("cacheRefresh")
  /\ requests' = Answered(requests, answer)
  /\ promise' = IF IsSuccess(answer)
                  THEN Settle(promise, "fulfilled", Num(answer.status))
                  ELSE CacheRefreshFailed(promise, answer)
  /\ UNCHANGED <<store, call, operation, result, deleted>>

----------------------------------------------------------------------------
(* getBucket, getKeyList *)

\* the kinds of the bucket properties getBucketProps answers with
ListedBucketKinds == {"map", "default"}

\* the buckets getBucket has made: they carry their properties
BucketRecords(st) ==
  { id \in 1..Len(st) : st[id].model = "bucket" /\ "props" \in DOMAIN st[id] }

\* getBucket once the bucket type and the bucket properties are there
GetBucket(cluster, bucketType, bucketId, kind) ==
  /\ call = NoCall
  /\ Len(store) + 1 <= MaxRecords
  /\ \A id \in BucketRecords(store) : store[id].name # bucketId
  /\ call' = [method |-> "getBucket",
              args |-> <<Str(store[cluster].id), Str(store[bucketType].bucketTypeId),
                         Str(bucketId)>>]
  /\ store' = CreateRecord(store, [model |-> "bucket", name |-> bucketId,
                                   bucketType |-> bucketType, cluster |-> cluster,
                                   props |-> kind])
  /\ result' = Ref(Len(store) + 1)
  /\ operation' = Undefined
  /\ UNCHANGED io

\* clusterId, bucketTypeId, bucketId and props of a bucket record
BucketValue(st, bucket) ==
  [clusterId |-> st[st[bucket].cluster].id,
   bucketTypeId |-> st[st[bucket].bucketType].bucketTypeId,
   bucketId |-> st[bucket].name, props |-> st[bucket].props]

KeyListUrl(bucket, start, rows) ==
  ApiURL \o "explore/clusters/" \o bucket.clusterId \o "/bucket_types/"
    \o bucket.bucketTypeId \o "/buckets/" \o bucket.bucketId
    \o "/keys?start=" \o ToString(start) \o "&rows=" \o ToString(rows)

GetKeyList(bucket) ==
  /\ call = NoCall
  /\ Len(store) + 1 <= MaxRecords
  /\ call' = [method |-> "getKeyList", args |-> <<Ref(bucket)>>]
  /\ requests' = <<Request("GET", KeyListUrl(BucketValue(store, bucket), 1, PageSize),
                           Undefined)>>
  /\ promise' = Pending
  /\ operation' = Undefined
  /\ result' = Undefined
  /\ UNCHANGED <<store, deleted>>

FetchedKeyListAnswers ==
  { Answer(200, "success", KeyListData(<<"k1">>)), Answer(404, "error", Undefined),
    Answer(500, "error", Undefined), Answer(200, "parsererror", Undefined) }

RefreshingKeysMessage ==
  "Cache not found. Refreshing from a streaming list keys call..."

\* what the error callback does on a 404: the store, the cache and the
\* requests after it
NotFoundKeyList_alwaysRefreshes(bucket, answer) ==
  With(CreateKeyListIn(store, deleted, Null, BucketValue(store, bucket), Undefined),
       LAMBDA made :
    [store |-> SetAttr(SetAttr(made.store, bucket, "isKeyListLoaded", FALSE),
                       made.value.v, "statusMessage", RefreshingKeysMessage),
     deleted |-> made.deleted,
     requests |-> Append(Answered(requests, answer),
                         CacheRefreshRequest(
                           RefreshKeysUrl(BucketValue(store, bucket).clusterId,
                                          BucketValue(store, bucket).bucketTypeId,
                                          BucketValue(store, bucket).bucketId))),
     emptyList |-> made.value.v])

NotFoundKeyList(bucket, answer) ==
  With(CreateKeyListIn(store, deleted, Null, BucketValue(store, bucket), Undefined),
       LAMBDA made :
    IF store[store[bucket].cluster].developmentMode
      THEN [store |-> SetAttr(SetAttr(made.store, bucket, "isKeyListLoaded", FALSE),
                              made.value.v, "statusMessage", RefreshingKeysMessage),
            deleted |-> made.deleted,
            requests |-> Append(Answered(requests, answer),
                                CacheRefreshRequest(
                                  RefreshKeysUrl(BucketValue(store, bucket).clusterId,
                                                 BucketValue(store, bucket).bucketTypeId,
                                                 BucketValue(store, bucket).bucketId))),
            emptyList |-> made.value.v]
      ELSE [store |-> SetAttr(SetAttr(made.store, bucket, "isKeyListLoaded", TRUE),
                              made.value.v, "cachePresent", FALSE),
            deleted |-> made.deleted,
            requests |-> Answered(requests, answer),
            emptyList |-> made.value.v])

\* the success and error callbacks of getKeyList; what createKeyList throws
\* in the success callback leaves the promise pending
GetKeyListAnswered(answer) ==
  /\ AwaitsAnswer("getKeyList")
  /\ IF IsSuccess(answer)
       THEN \E made \in {CreateKeyListIn(
                           SetAttr(store, call.args[1].v, "isKeyListLoaded", TRUE),
                           deleted, answer.data,
                           BucketValue(store, call.args[1].v), Num(1))} :
              /\ Len(made.store) <= MaxRecords
              /\ store' = made.store
              /\ deleted' = made.deleted
              /\ requests' = Answered(requests, answer)
              /\ promise' = IF IsThrow(made.value) THEN promise
                            ELSE Settle(promise, "fulfilled", made.value)
     ELSE IF answer.status = 404
       THEN \E done \in {NotFoundKeyList(call.args[1].v, answer)} :
              /\ Len(done.store) <= MaxRecords
              /\ store' = done.store
              /\ deleted' = done.deleted
              /\ requests' = done.requests
              /\ promise' = Settle(promise, "fulfilled", Ref(done.emptyList))
     ELSE /\ store' = store
          /\ deleted' = deleted
          /\ requests' = Answered(requests, answer)
          /\ promise' = Settle(promise, "rejected", Str(answer.textStatus))
  /\ UNCHANGED <<call, operation, result>>

----------------------------------------------------------------------------
(* createSchema, getIndexesForCluster, getCluster *)

SchemaNames == {"s1", "s2"}

\* the schemaRef of the indexes a query for the indexes of a cluster answers
IndexSchemaRefs == { <<"s1">>, <<"s1", "s1">>, <<"s1", "s2">> }

\* cluster.get('searchIndexes') and cluster.get('searchSchemas'): the index
\* and schema records of the cluster, in the order they were made
RECURSIVE RecordsOf(_, _, _, _)
RecordsOf(st, model, cluster, upTo) ==
  IF upTo = 0 THEN <<>>
  ELSE IF st[upTo].model = model /\ st[upTo].cluster = cluster
    THEN Append(RecordsOf(st, model, cluster, upTo - 1), upTo)
    ELSE RecordsOf(st, model, cluster, upTo - 1)

SearchIndexes(st, cluster) == RecordsOf(st, "search-index", cluster, Len(st))
SearchSchemas(st, cluster) == RecordsOf(st, "search-schema", cluster, Len(st))

\* records.findBy('name', name): the first of them, or undefined
FindByName(st, records, name) ==
  LET hits == { i \in 1..Len(records) : st[records[i]].name = name }
  IN IF hits = {} THEN Undefined
     ELSE Ref(records[CHOOSE i \in hits : \A j \in hits : i <= j])

SchemaId(st, cluster, name) == st[cluster].id \o "/" \o name

\* returns the store and the schema
CreateSchemaIn_alwaysCreates(st, name, cluster) ==
  [store |-> CreateRecord(st, [model |-> "search-schema",
                               id |-> SchemaId(st, cluster, name),
                               cluster |-> cluster, name |-> name]),
   schema |-> Ref(Len(st) + 1)]

CreateSchemaIn(st, name, cluster) ==
  IF Truthy(FindByName(st, SearchSchemas(st, cluster), name))
    THEN [store |-> st, schema |-> FindByName(st, SearchSchemas(st, cluster), name)]
    ELSE [store |-> CreateRecord(st, [model |-> "search-schema",
                                      id |-> SchemaId(st, cluster, name),
                                      cluster |-> cluster, name |-> name]),
          schema |-> Ref(Len(st) + 1)]

CreateSchema(name, cluster) ==
  /\ call = NoCall
  /\ \E made \in {CreateSchemaIn(store, name, cluster)} :
       /\ Len(made.store) <= MaxRecords
       /\ call' = [method |-> "createSchema", args |-> <<Str(name), Ref(cluster)>>]
       /\ store' = made.store
       /\ result' = made.schema
       /\ operation' = Undefined
       /\ UNCHANGED io

\* the indexes of the cluster are queried when it has none
RECURSIVE CreateIndexes(_, _, _)
CreateIndexes(st, cluster, schemaRefs) ==
  IF schemaRefs = <<>> THEN st
  ELSE CreateIndexes(
         CreateRecord(st, [model |-> "search-index", cluster |-> cluster,
                           name |-> "i" \o ToString(Len(st)),
                           schemaRef |-> Head(schemaRefs)]),
         cluster, Tail(schemaRefs))

GetIndexesForCluster(cluster, schemaRefs) ==
  /\ call = NoCall
  /\ SearchIndexes(store, cluster) = <<>>
  /\ Len(store) + Len(schemaRefs) <= MaxRecords
  /\ call' = [method |-> "getIndexesForCluster", args |-> <<Ref(cluster)>>]
  /\ store' = CreateIndexes(store, cluster, schemaRefs)
  /\ result' = Arr([i \in 1..Len(schemaRefs) |-> Ref(Len(store) + i)])
  /\ operation' = Undefined
  /\ UNCHANGED io

\* cluster.get('searchIndexes').forEach(...): each index gets the schema
\* createSchema returns for its schemaRef
RECURSIVE SetSchemas(_, _, _)
SetSchemas(st, cluster, indexes) ==
  IF indexes = <<>> THEN st
  ELSE With(CreateSchemaIn(st, st[Head(indexes)].schemaRef, cluster), LAMBDA made :
         SetSchemas(SetAttr(made.store, Head(indexes), "schema", made.schema),
                    cluster, Tail(indexes)))

\* getCluster once the cluster, its bucket types and its indexes are there
GetCluster(cluster) ==
  /\ call = NoCall
  /\ \E st1 \in {SetSchemas(store, cluster, SearchIndexes(store, cluster))} :
       /\ Len(st1) <= MaxRecords
       /\ call' = [method |-> "getCluster", args |-> <<Str(store[cluster].id)>>]
       /\ store' = st1
       /\ result' = Ref(cluster)
       /\ operation' = Undefined
       /\ UNCHANGED io

----------------------------------------------------------------------------
(* Specification of the lists, the cache refresh and the schemas *)

ListNext ==
  \/ Return
  \/ \E clusterId \in ClusterIds, developmentMode \in BOOLEAN,
        bucketTypeId \in BucketTypeIds :
       FindCluster(clusterId, developmentMode, bucketTypeId)
  \/ \E cluster \in Clusters(store), bucketType \in BucketTypes(store) :
       GetBucketList(cluster, bucketType)
  \/ \E answer \in BucketListAnswers : GetBucketListAnswered(answer)
  \/ \E cluster \in Clusters(store), bucketType \in BucketTypes(store),
        bucketId \in BucketIds, kind \in ListedBucketKinds :
       GetBucket(cluster, bucketType, bucketId, kind)
  \/ \E bucket \in BucketRecords(store) : GetKeyList(bucket)
  \/ \E answer \in FetchedKeyListAnswers : GetKeyListAnswered(answer)
  \/ \E url \in RefreshUrls : CacheRefresh(url)
  \/ \E answer \in RefreshAnswers : CacheRefreshAnswered(answer)
  \/ \E name \in SchemaNames, cluster \in Clusters(store) : CreateSchema(name, cluster)
  \/ \E cluster \in Clusters(store), schemaRefs \in IndexSchemaRefs :
       GetIndexesForCluster(cluster, schemaRefs)
  \/ \E cluster \in Clusters(store) : GetCluster(cluster)

ListSpec == Init /\ [][ListNext]_vars

----------------------------------------------------------------------------
(* getRiakObject *)

\* an answer to the fetch of an object: the parsed body, the response text
\* and the response headers
ObjectAnswer(status, textStatus, data, responseText, headers) ==
  [t |-> "answer", status |-> status, textStatus |-> textStatus, data |-> data,
   responseText |-> responseText, headers |-> headers]

FetchedBuckets == { Bucket(kind) : kind \in {"counter", "map", "default"} }

\* what Riak answers a fetch of an object of the bucket with
ObjectAnswers(bucket) ==
  { ObjectAnswer(200, "success", payload,
                 IF payload.t = "str" THEN payload ELSE Str(Stringify(payload)),
                 rawHeader) :
      payload \in ServicePayloads(bucket), rawHeader \in RawHeaders }
    \cup { ObjectAnswer(200, "parsererror", Undefined, Str("{oops"), "ETag: 1"),
           ObjectAnswer(300, "error", Undefined, Str("Siblings:"), "ETag: 1"),
           ObjectAnswer(404, "error", Undefined, Str("not found"), ""),
           ObjectAnswer(500, "parsererror", Undefined, Str(""), ""),
           ObjectAnswer(0, "timeout", Undefined, Str(""), "") }

GetRiakObject(bucket, key) ==
  /\ call = NoCall
  /\ Len(store) + 2 <= MaxRecords
  /\ call' = [method |-> "getRiakObject", args |-> <<bucket, Str(key)>>]
  /\ requests' = <<Request("GET", ObjectUrl(bucket, key), Undefined)>>
  /\ promise' = Pending
  /\ operation' = Undefined
  /\ result' = Undefined
  /\ UNCHANGED <<store, deleted>>

\* resolve(explorer.createObjectFromAjax(key, bucket, headerString, payload,
\* store, url)) on the store and promise of acc
ResolveWithObject(acc, bucket, key, rawHeader, payload) ==
  With(CreateObjectFromAjax(acc.store, key, bucket, rawHeader, payload,
                            ObjectUrl(bucket, key)),
       LAMBDA made :
    [store |-> made.store,
     promise |-> Settle(acc.promise, "fulfilled", Ref(made.object))])

\* the error callback: the store and the promise after it
GetRiakObjectFailed_rejectsParserError(st, p, bucket, key, answer) ==
  IF answer.status = 300
    THEN ResolveWithObject([store |-> st, promise |-> p], bucket, key,
                           answer.headers, answer.responseText)
    ELSE [store |-> st, promise |-> Settle(p, "rejected", answer)]

GetRiakObjectFailed(st, p, bucket, key, answer) ==
  With(IF answer.status = 200 /\ answer.textStatus = "parsererror"
         THEN ResolveWithObject([store |-> st, promise |-> p], bucket, key,
                                answer.headers, answer.responseText)
         ELSE [store |-> st, promise |-> p],
       LAMBDA suppressed :
    IF answer.status = 300
      THEN ResolveWithObject(suppressed, bucket, key, answer.headers,
                             answer.responseText)
      ELSE [store |-> suppressed.store,
            promise |-> Settle(suppressed.promise, "rejected", answer)])

\* the success and error callbacks of getRiakObject
GetRiakObjectAnswered(answer) ==
  /\ AwaitsAnswer("getRiakObject")
  /\ \E done \in {IF IsSuccess(answer)
                    THEN ResolveWithObject(
                           [store |-> store, promise |-> promise], call.args[1],
                           call.args[2].v, answer.headers,
                           IF IsCRDT(call.args[1]) THEN answer.data
                                                   ELSE answer.responseText)
                    ELSE GetRiakObjectFailed(store, promise, call.args[1],
                                             call.args[2].v, answer)} :
       /\ Len(done.store) <= MaxRecords
       /\ store' = done.store
       /\ promise' = done.promise
       /\ requests' = Answered(requests, answer)
  /\ UNCHANGED <<call, operation, result, deleted>>

\* fetching objects
FetchNext ==
  \/ Return
  \/ \E bucket \in FetchedBuckets, key \in Keys : GetRiakObject(bucket, key)
  \/ /\ call.method = "getRiakObject"
     /\ \E answer \in ObjectAnswers(call.args[1]) : GetRiakObjectAnswered(answer)

FetchSpec == Init /\ [][FetchNext]_vars

----------------------------------------------------------------------------
(* What the claims speak of *)

\* name = prefix \o suffix for some prefix
HasSuffix(name, suffix) ==
  \E n \in 0..(Len(name) - 1) : SubSeq(name, n + 1, Len(name)) = suffix

SuffixOf ==
  [counters |-> "_counter", flags |-> "_flag", registers |-> "_register",
   sets |-> "_set", maps |-> "_map"]

TypeOf ==
  [counters |-> "counter", flags |-> "flag", registers |-> "register",
   sets |-> "set", maps |-> "map"]

KeySet(obj) == { obj.v[i].k : i \in 1..Len(obj.v) }

\* the field names of one bucket of a field set
BucketKeys(contents, bucketName) == KeySet(Get(contents, bucketName))

\* the records one field set holds, over its five buckets
FieldsIn(contents) ==
  IF contents.t # "obj" THEN {}
  ELSE UNION { IF m.v.t = "obj"
                 THEN { m.v.v[i].v.v : i \in 1..Len(m.v.v) }
                 ELSE {} : m \in { contents.v[j] : j \in 1..Len(contents.v) } }

\* the field set of a map: the contents of a map object, the value of an
\* embedded map
FieldSetOf(st, id) ==
  IF st[id].model = "riak-object.map" THEN st[id].contents
  ELSE IF st[id].model = "riak-object.embedded-map" THEN st[id].value
  ELSE Undefined

\* every field record reachable from a field set through maps and values
RECURSIVE ReachableFrom(_, _)
ReachableFrom(st, contents) ==
  LET direct == FieldsIn(contents)
  IN direct \cup
     UNION { ReachableFrom(st, st[f].value) :
               f \in { g \in direct : st[g].fieldType = "map" } }

MapObjects(st) == { id \in RecordIds(st) : st[id].model = "riak-object.map" }

\* the embedded maps above a field, outermost first; the top-level map
\* object is not among them
RECURSIVE AncestorMaps(_, _)
AncestorMaps(st, field) ==
  LET parent == st[field].parentMap
  IN IF st[parent].model \in ObjectModels THEN <<>>
     ELSE Append(AncestorMaps(st, parent), parent)

AncestorNames(st, field) ==
  LET maps == AncestorMaps(st, field) IN [i \in 1..Len(maps) |-> st[maps[i]].name]

\* a map object has just been built from a fetched payload
AfterCreateMap ==
  /\ call.method = "createObjectFromAjax"
  /\ call.args[2].props = "map"

CreatedRoot == result.v
CreatedPayload == Get(call.args[4], "value")

----------------------------------------------------------------------------
(* C1 .. C4: the field classifier *)

\* C1: collectMapFields(root, root, P) returns five non-null buckets whose
\* key sets are pairwise disjoint and together are the keys of P that end in
\* one of the five suffixes, each key in the bucket of its suffix; other keys
\* are in no bucket and raise no error, and an empty P gives five empty
\* buckets.
C1_BucketsPartitionSuffixedKeys ==
  AfterCreateMap =>
    LET contents == store[CreatedRoot].contents
        keys == KeySet(CreatedPayload)
    IN /\ result.t = "ref"
       /\ contents.t = "obj"
       /\ KeysOf(contents.v) = <<"counters", "flags", "registers", "sets", "maps">>
       /\ \A b \in BucketNames :
            /\ Get(contents, b).t = "obj"
            /\ BucketKeys(contents, b) = { k \in keys : HasSuffix(k, SuffixOf[b]) }
            /\ Len(Get(contents, b).v) = Cardinality(BucketKeys(contents, b))
       /\ \A b1, b2 \in BucketNames :
            b1 # b2 => BucketKeys(contents, b1) \cap BucketKeys(contents, b2) = {}
       /\ UNION { BucketKeys(contents, b) : b \in BucketNames }
            = { k \in keys : \E b \in BucketNames : HasSuffix(k, SuffixOf[b]) }
       /\ CreatedPayload.v = <<>> =>
            \A b \in BucketNames : Get(contents, b) = Obj(<<>>)

C1_Witness ==
  /\ AfterCreateMap
  /\ \E k \in KeySet(CreatedPayload) :
       \A b \in BucketNames : ~HasSuffix(k, SuffixOf[b])
  /\ Cardinality({ b \in BucketNames :
                     BucketKeys(store[CreatedRoot].contents, b) # {} }) >= 2

\* C2: every field record reachable from the field set of a map object,
\* through any chain of maps buckets and their values, has that map object
\* as its rootMap.
C2_RootMapIsRoot ==
  \A root \in MapObjects(store) :
    \A f \in ReachableFrom(store, store[root].contents) :
      store[f].rootMap = root

C2_Witness ==
  \E root \in MapObjects(store) :
    \E f \in ReachableFrom(store, store[root].contents) :
      /\ Len(AncestorMaps(store, f)) = 2
      /\ store[f].rootMap = root

\* C3: every field record has a parentMap: the map object for a field of the
\* top-level payload, and for a field of the payload of a nested _map field
\* that nested map's own record, in whose field set the field is filed.
C3_ParentMapIsEnclosingMap ==
  /\ \A f \in FieldIds(store) :
       LET parent == store[f].parentMap
       IN /\ parent \in RecordIds(store)
          /\ store[parent].model \in {"riak-object.map", "riak-object.embedded-map"}
          /\ f \in FieldsIn(FieldSetOf(store, parent))
  /\ \A m \in RecordIds(store) :
       \A f \in FieldsIn(FieldSetOf(store, m)) :
         store[f].parentMap = m

C3_Witness ==
  \E f \in FieldIds(store) :
    /\ Len(AncestorMaps(store, f)) = 2
    /\ store[f].parentMap # store[f].rootMap
    /\ store[store[f].parentMap].parentMap # store[f].rootMap
    /\ f \in FieldsIn(store[store[f].parentMap].value)

\* a field set without the identity of its records: per bucket and name,
\* the field's type, name and value, the value of a map being a field set
RECURSIVE ShapeOf(_, _)
ShapeOf(st, contents) ==
  IF contents.t # "obj" THEN contents
  ELSE Obj([i \in 1..Len(contents.v) |->
         LET bucket == contents.v[i].v IN
         Member(contents.v[i].k,
           Obj([j \in 1..Len(bucket.v) |->
             LET f == bucket.v[j].v.v IN
             Member(bucket.v[j].k,
                    [fieldType |-> st[f].fieldType, name |-> st[f].name,
                     value |-> IF st[f].fieldType = "map"
                                 THEN ShapeOf(st, st[f].value)
                                 ELSE st[f].value])]))])

PayloadKeys(payload) == IF payload.t = "obj" THEN KeySet(payload) ELSE {}

\* a field set is the classification of a payload, at every level: each
\* bucket holds the payload's keys of its suffix, each field carries the
\* payload's value, and the value of each map field is what classifying
\* that key's payload alone gives
RECURSIVE ClassifiedFrom(_, _, _)
ClassifiedFrom(st, contents, payload) ==
  /\ contents.t = "obj"
  /\ \A b \in BucketNames :
       BucketKeys(contents, b)
         = { k \in PayloadKeys(payload) : HasSuffix(k, SuffixOf[b]) }
  /\ \A b \in BucketNames \ {"maps"} :
       \A k \in BucketKeys(contents, b) :
         LET f == Get(Get(contents, b), k).v
         IN /\ st[f].name = k
            /\ st[f].fieldType = TypeOf[b]
            /\ st[f].value = Get(payload, k)
  /\ \A k \in BucketKeys(contents, "maps") :
       LET m == Get(Get(contents, "maps"), k).v
           alone == CollectMapFields(st, m, m, Get(payload, k))
       IN /\ st[m].name = k
          /\ st[m].fieldType = "map"
          /\ ShapeOf(st, st[m].value) = ShapeOf(alone.store, alone.contents)
          /\ ClassifiedFrom(st, st[m].value, Get(payload, k))

\* C4: the value of the field record at maps[k] is the field set obtained by
\* classifying payload[k] on its own, the same partition rule applied at
\* every level; the payload {a_counter: 5, b_set: [x, y], c_map: {d_flag:
\* true}} gives counters = {a_counter}, sets = {b_set}, maps = {c_map}, and
\* c_map's value has flags = {d_flag} and its other buckets empty.
C4_MapValueIsNestedClassification ==
  AfterCreateMap =>
    LET contents == store[CreatedRoot].contents IN
    /\ ClassifiedFrom(store, contents, CreatedPayload)
    /\ CreatedPayload = Obj(ExampleFields) =>
         LET inner == store[Get(Get(contents, "maps"), "c_map").v].value IN
         /\ BucketKeys(contents, "counters") = {"a_counter"}
         /\ BucketKeys(contents, "sets") = {"b_set"}
         /\ BucketKeys(contents, "maps") = {"c_map"}
         /\ BucketKeys(contents, "flags") = {}
         /\ BucketKeys(contents, "registers") = {}
         /\ BucketKeys(inner, "flags") = {"d_flag"}
         /\ \A b \in BucketNames \ {"flags"} : Get(inner, b) = Obj(<<>>)

C4_Witness ==
  /\ AfterCreateMap
  /\ CreatedPayload = Obj(ExampleFields)
  /\ LET c_map == Get(Get(store[CreatedRoot].contents, "maps"), "c_map")
     IN /\ c_map.t = "ref"
        /\ store[c_map.v].value.t = "obj"
        /\ FieldsIn(store[c_map.v].value) # {}

----------------------------------------------------------------------------
(* C5 .. C7: dataTypeUpdateMap *)

\* dataTypeUpdateMap(field, subOperation) has just returned
AfterWrap == call.method = "dataTypeUpdateMap"
WrappedField == call.args[1].v
WrappedOperation == call.args[2]

\* a document {update: {<one key>: ...}}
IsUpdateLevel(doc) ==
  /\ doc.t = "obj"
  /\ Len(doc.v) = 1
  /\ doc.v[1].k = "update"
  /\ doc.v[1].v.t = "obj"
  /\ Len(doc.v[1].v.v) = 1

NoDocument == [t |-> "none", v |-> 0]

\* what is left of a document with its n outermost update levels taken off
RECURSIVE Peel(_, _)
Peel(doc, n) ==
  IF n = 0 THEN doc
  ELSE IF IsUpdateLevel(doc) THEN Peel(doc.v[1].v.v[1].v, n - 1)
  ELSE NoDocument

\* the keys of the n outermost update levels of a document, outermost first
RECURSIVE LevelKeys(_, _)
LevelKeys(doc, n) ==
  IF n = 0 \/ ~IsUpdateLevel(doc) THEN <<>>
  ELSE <<doc.v[1].v.v[1].k>> \o LevelKeys(doc.v[1].v.v[1].v, n - 1)

\* C5: dataTypeUpdateMap(field, op) on a field whose parentMap is top level
\* returns op itself, with no update level added.
C5_TopLevelFieldReturnsOperation ==
  (AfterWrap /\ IsTopLevel(store, store[WrappedField].parentMap)) =>
    result = WrappedOperation

C5_Witness ==
  /\ AfterWrap
  /\ store[store[WrappedField].parentMap].model = "riak-object.map"
  /\ result = WrappedOperation
  /\ IsUpdateLevel(WrappedOperation)

\* C6: dataTypeUpdateMap(field, op) on a field with N maps between it and
\* the root map returns op inside exactly N nested update levels, op itself
\* unchanged as the innermost value.
C6_OneUpdateLevelPerIntermediateMap ==
  AfterWrap =>
    LET N == Len(AncestorMaps(store, WrappedField))
    IN /\ Peel(result, N) = WrappedOperation
       /\ \A n \in 0..(N - 1) : IsUpdateLevel(Peel(result, n))

C6_Witness ==
  /\ AfterWrap
  /\ Len(AncestorMaps(store, WrappedField)) = 2
  /\ Peel(result, 2) = WrappedOperation
  /\ ~IsUpdateLevel(WrappedOperation)

\* C7: the single keys of the added update levels, read from the outermost
\* level inward, are the names of the field's ancestor maps from the map
\* directly under the root down to the field's immediate parent; the root
\* map is not among them and each added level has exactly one key.
C7_LevelKeysAreAncestorNamesOutermostFirst ==
  AfterWrap =>
    LET names == AncestorNames(store, WrappedField)
    IN /\ LevelKeys(result, Len(names)) = names
       /\ \A n \in 0..(Len(names) - 1) : IsUpdateLevel(Peel(result, n))
       /\ Peel(result, Len(names)) = WrappedOperation

C7_Witness ==
  /\ AfterWrap
  /\ AncestorNames(store, WrappedField) = <<"settings_map", "profile_map">>
  /\ LevelKeys(result, 2) = <<"settings_map", "profile_map">>

----------------------------------------------------------------------------
(* C8 .. C10: operations on the fields of a map *)

\* dataTypeActionFor(object, operationType, item) has just ended
AfterAction == call.method = "dataTypeActionFor"
ActionObject == call.args[1].v
ActionType == call.args[2].v
ActionItem == call.args[3]
ActionProps == call.args[4]

IsCounterField(id) ==
  /\ store[id].model = "riak-object.map-field"
  /\ store[id].fieldType = "counter"

\* a leaf with one update level around it per name, the first name outermost
RECURSIVE ExpectedWrap(_, _)
ExpectedWrap(names, leaf) ==
  IF names = <<>> THEN leaf
  ELSE ExpectedWrap(SubSeq(names, 1, Len(names) - 1),
         Obj(<<Member("update", Obj(<<Member(names[Len(names)], leaf)>>))>>))

IncrementOfCounterField ==
  /\ AfterAction
  /\ ActionType = "increment"
  /\ IsCounterField(ActionObject)
  /\ ActionProps.incrementBy = Num(3)

\* C8 as stated: increment of a counter field with incrementBy = 3 produces
\* {"increment": 3} directly under the top-level map and
\* {"update": {"m": {"increment": 3}}} one level under map m.
C8_AsStated ==
  IncrementOfCounterField =>
    LET names == AncestorNames(store, ActionObject)
    IN /\ names = <<>> => result = Str("{\"increment\":3}")
       /\ Len(names) = 1 =>
            result = Str("{\"update\":{\"" \o names[1] \o "\":{\"increment\":3}}}")

\* C8, amended: increment of a counter field named F with incrementBy = 3
\* produces {"update": {F: {"increment": 3}}} directly under the top-level
\* map and {"update": {"m": {"update": {F: {"increment": 3}}}}} one level
\* under map m.
C8_IncrementUpdatesNamedField ==
  IncrementOfCounterField =>
    LET names == AncestorNames(store, ActionObject)
        F == store[ActionObject].name
    IN /\ names = <<>> =>
            result = Str("{\"update\":{\"" \o F \o "\":{\"increment\":3}}}")
       /\ Len(names) = 1 =>
            result = Str("{\"update\":{\"" \o names[1] \o "\":{\"update\":{\""
                           \o F \o "\":{\"increment\":3}}}}}")

C8_Witness ==
  /\ IncrementOfCounterField
  /\ AncestorNames(store, ActionObject) = <<"c_map">>
  /\ result = Str("{\"update\":{\"c_map\":{\"update\":{\"a_counter\":{\"increment\":3}}}}}")

FieldOperationOnMap(types) ==
  /\ AfterAction
  /\ ActionType \in types
  /\ ActionItem.t = "ref"
  /\ BucketOf(store, ActionObject).props = "map"

\* C9: removeField with item = field f produces the leaf {remove: f's name}
\* inside one update level per ancestor map of the item, whatever the object
\* argument; for f in map m in map n directly under the root it is
\* {"update": {"n": {"update": {"m": {"remove": "f"}}}}}.
C9_RemoveFieldWrapsFromItem ==
  FieldOperationOnMap({"removeField"}) =>
    LET item == ActionItem.v
        names == AncestorNames(store, item)
    IN /\ operation = ExpectedWrap(names,
                        Obj(<<Member("remove", Str(store[item].name))>>))
       /\ Len(names) = 2 =>
            result = Str("{\"update\":{\"" \o names[1] \o "\":{\"update\":{\""
                           \o names[2] \o "\":{\"remove\":\"" \o store[item].name
                           \o "\"}}}}}")

C9_Witness ==
  /\ FieldOperationOnMap({"removeField"})
  /\ Len(AncestorMaps(store, ActionItem.v)) = 2
  /\ ActionObject \notin {ActionItem.v, store[ActionItem.v].parentMap}
  /\ result = Str("{\"update\":{\"settings_map\":{\"update\":{\"profile_map\":{\"remove\":\"page_visits_counter\"}}}}}")

\* C10: addField and editField with item = field f produce the leaf
\* {update: {f's name: f's value}} inside one update level per ancestor map
\* of the item; for page_visits_counter of value 1 in profile_map in
\* settings_map it is {"update": {"settings_map": {"update": {"profile_map":
\* {"update": {"page_visits_counter": 1}}}}}}.
C10_AddFieldWrapsNameAndValue ==
  FieldOperationOnMap({"addField", "editField"}) =>
    LET item == ActionItem.v
        names == AncestorNames(store, item)
    IN /\ operation = ExpectedWrap(names,
                        Obj(<<Member("update",
                                Obj(<<Member(store[item].name, store[item].value)>>))>>))
       /\ (names = <<"settings_map", "profile_map">>
             /\ store[item].name = "page_visits_counter"
             /\ store[item].value = Num(1)) =>
            result = Str("{\"update\":{\"settings_map\":{\"update\":{\"profile_map\":{\"update\":{\"page_visits_counter\":1}}}}}}")

C10_Witness ==
  /\ FieldOperationOnMap({"addField"})
  /\ AncestorNames(store, ActionItem.v) = <<"settings_map", "profile_map">>
  /\ store[ActionItem.v].name = "page_visits_counter"
  /\ ActionObject # ActionItem.v
  /\ result.t = "str"

----------------------------------------------------------------------------
(* C11 .. C14: dispatch on the kind of the bucket *)

ActionKind == BucketOf(store, ActionObject).props

\* the call has thrown an Ember.Error whose message ends with the operation
\* type, and has returned nothing
FailedNaming(operationType) ==
  /\ IsThrow(result)
  /\ result.v[1] = "Ember.Error"
  /\ EndsWith(result.v[2], ": " \o operationType)
  /\ operation = result

\* C11: for a counter, set or map bucket and any target, dataTypeActionFor
\* with an operation type outside the seven known ones throws an error that
\* names the operation type and returns no document.
C11_UnknownOperationTypeFails ==
  (AfterAction /\ ActionKind \in {"counter", "set", "map"}
     /\ ActionType \notin OperationTypes) =>
    FailedNaming(ActionType)

C11_Witness ==
  /\ AfterAction
  /\ ActionKind = "set"
  /\ ActionType = "update"
  /\ result = Throw("Ember.Error", "Invalid data type or unsupported operation: update")

\* C12: when the bucket of the target is neither counter nor set nor map,
\* dataTypeActionFor throws for every operation type, the known ones
\* included, and returns no document.
C12_NoDataTypeFails ==
  (AfterAction /\ ActionKind \notin {"counter", "set", "map"}) =>
    FailedNaming(ActionType)

C12_Witness ==
  /\ AfterAction
  /\ ActionKind = "default"
  /\ ActionType = "increment"
  /\ IsThrow(result)

\* C13: for a top-level counter object the document is exactly
\* {increment: incrementBy} or {decrement: decrementBy}, for a top-level set
\* object exactly {add: element} or {remove: element}: there is no update
\* level, and the call does not fail for want of a parentMap.
C13_TopLevelCounterAndSetAreLeaves ==
  (AfterAction /\ ActionObject \in ObjectIds(store)) =>
    /\ (ActionKind = "counter" /\ ActionType = "increment") =>
         /\ operation = Obj(<<Member("increment", ActionProps.incrementBy)>>)
         /\ result = Str("{\"increment\":" \o ToString(ActionProps.incrementBy.v) \o "}")
    /\ (ActionKind = "counter" /\ ActionType = "decrement") =>
         /\ operation = Obj(<<Member("decrement", ActionProps.decrementBy)>>)
         /\ result = Str("{\"decrement\":" \o ToString(ActionProps.decrementBy.v) \o "}")
    /\ (ActionKind = "set" /\ ActionType = "addElement") =>
         /\ operation = Obj(<<Member("add", ActionItem)>>)
         /\ result = Str("{\"add\":" \o Quote(ActionItem.v) \o "}")
    /\ (ActionKind = "set" /\ ActionType = "removeElement") =>
         /\ operation = Obj(<<Member("remove", ActionItem)>>)
         /\ result = Str("{\"remove\":" \o Quote(ActionItem.v) \o "}")

C13_Witness ==
  /\ AfterAction
  /\ ActionObject \in ObjectIds(store)
  /\ ActionKind = "set"
  /\ ActionType = "removeElement"
  /\ "parentMap" \notin DOMAIN store[ActionObject]
  /\ result = Str("{\"remove\":\"x\"}")

OtherFieldOperation(operationType) ==
  IF operationType = "addField" THEN "editField" ELSE "addField"

\* C14: for every target in a map bucket and every operand field, addField
\* and editField build the same document.
C14_AddFieldAndEditFieldAgree ==
  FieldOperationOnMap({"addField", "editField"}) =>
    LET other == DataTypeOperation(store, Ref(ActionObject),
                                   OtherFieldOperation(ActionType), ActionItem,
                                   ActionProps)
    IN /\ operation = other
       /\ result = ActionString(other)

C14_Witness ==
  /\ FieldOperationOnMap({"editField"})
  /\ ActionObject \in MapObjects(store)
  /\ Len(AncestorMaps(store, ActionItem.v)) = 1
  /\ result.t = "str"

----------------------------------------------------------------------------
(* C15: updateDataType *)

AfterUpdateDataType == call.method = "updateDataType"

\* building the operation document of the call fails
BuildFails ==
  IsThrow(DataTypeOperation(store, call.args[1], call.args[2].v, call.args[3],
                            call.args[4]))

Posts == { i \in 1..Len(requests) : requests[i].type = "POST" }

\* C15: when building the operation document fails inside updateDataType,
\* the call issues no POST and the promise it returned is not fulfilled.
C15_NoRequestWhenBuildingFails ==
  (AfterUpdateDataType /\ BuildFails) =>
    /\ Posts = {}
    /\ promise.state = "rejected"
    /\ IsThrow(promise.value)

C15_Witness ==
  /\ AfterUpdateDataType
  /\ BuildFails
  /\ call.args[2].v = "increment"
  /\ BucketOf(store, call.args[1].v).props = "default"
  /\ requests = <<>>
  /\ promise.state = "rejected"

----------------------------------------------------------------------------
(* C16: what the classifier and the builder leave alone *)

ObjectAttributes ==
  {"model", "key", "bucket", "bucketType", "cluster", "metadata", "isLoaded",
   "rawUrl", "contents"}

\* the step is a fetch of an object: createObjectFromAjax, which hands a map
\* payload to collectMapFields
CreateObjectStep == call = NoCall /\ call'.method = "createObjectFromAjax"

DataTypeActionStep == call = NoCall /\ call'.method = "dataTypeActionFor"

\* the map object collectMapFields is handed is as createObjectFromAjax made
\* it, but for the contents createObjectFromAjax sets afterwards
RootAsCreated ==
  LET root == result'.v
  IN /\ DOMAIN store'[root] = ObjectAttributes
     /\ store'[root].key = call'.args[1].v
     /\ store'[root].bucket = call'.args[2]
     /\ store'[root].model = ObjectModelName(call'.args[2])
     /\ store'[root].metadata = root - 1
     /\ store'[root - 1].model = "object-metadata"

\* C16: collectMapFields and dataTypeActionFor leave every record that
\* existed before the call, the map object passed in and the deleted cache
\* as they were; the classifier only adds records, the builder adds none.
C16_OnlyNewRecordsAndDocuments ==
  [][/\ CreateObjectStep =>
          /\ Len(store') >= Len(store)
          /\ \A id \in 1..Len(store) : store'[id] = store[id]
          /\ RootAsCreated
          /\ deleted' = deleted
     /\ DataTypeActionStep =>
          /\ store' = store
          /\ deleted' = deleted]_vars

\* a map has been classified into a store that held the fields of another
\* map, with keys recorded in the deleted cache
C16_Witness ==
  /\ call.method = "createObjectFromAjax"
  /\ store[result.v].model = "riak-object.map"
  /\ \E f \in FieldIds(store) : store[f].rootMap = result.v
  /\ \E f \in FieldIds(store) : f < result.v /\ "value" \in DOMAIN store[f]
  /\ deleted # NoneDeleted

----------------------------------------------------------------------------
(* C17 .. C19: the deleted cache *)

\* val.a.b.c over the members the objects have of their own
RECURSIVE OwnPath(_, _)
OwnPath(val, path) ==
  IF path = <<>> THEN val ELSE OwnPath(Get(val, Head(path)), Tail(path))

\* the cache records the key as deleted
RecordedDeleted(del, clusterId, bucketTypeId, bucketId, key) ==
  OwnPath(del, TypePath(clusterId, bucketTypeId)
                 \o <<"buckets", bucketId, "keysDeleted", key>>) = Bool(TRUE)

RecordedDeletedObject(id) ==
  RecordedDeleted(deleted, ClusterIdOf(store, id), BucketTypeIdOf(store, id),
                  BucketIdOf(store, id), KeyOf(store, id))

SameKey(a, b) ==
  /\ ClusterIdOf(store, a) = ClusterIdOf(store, b)
  /\ BucketTypeIdOf(store, a) = BucketTypeIdOf(store, b)
  /\ BucketIdOf(store, a) = BucketIdOf(store, b)
  /\ KeyOf(store, a) = KeyOf(store, b)

MarkedDeleted(id) ==
  "markedDeleted" \in DOMAIN store[id] /\ store[id].markedDeleted

\* the fetched objects deleteObject has been called with
DeletedObjects == { id \in LoadedObjects(store) : MarkedDeleted(id) }

\* C17 as stated: deleteObject(object) records the key of the object in the
\* deleted cache, and any later wasObjectDeleted on an object of the same
\* cluster, bucket type, bucket and key returns true.
C17_AsStated ==
  /\ call.method = "deleteObject" => RecordedDeletedObject(call.args[1].v)
  /\ (call.method = "wasObjectDeleted"
        /\ \E o \in DeletedObjects : SameKey(o, call.args[1].v)) =>
       result = Bool(TRUE)

\* C18 as stated: wasObjectDeleted(o) returns true exactly when markDeletedKey
\* was called before with an object of the same cluster, bucket type, bucket
\* and key, and an object whose key was not marked never reads as deleted.
C18_AsStated ==
  call.method = "wasObjectDeleted" =>
    /\ result = Bool(TRUE) <=> RecordedDeletedObject(call.args[1].v)
    /\ ~RecordedDeletedObject(call.args[1].v) => ~Truthy(result)

\* C19 as stated: createKeyList sets markedDeleted on a key record it creates
\* exactly when the deleted cache records that key for the cluster, bucket
\* type and bucket; with no data the key list has an empty keys array.
C19_AsStated ==
  (call.method = "createKeyList" /\ result.t = "ref") =>
    LET keys == store[result.v].keys
    IN /\ \A i \in 1..Len(keys) :
            MarkedDeleted(keys[i].v) <=> RecordedDeletedObject(keys[i].v)
       /\ ~Truthy(call.args[1]) => keys = <<>>

----------------------------------------------------------------------------
(* C20: getBucketList on 404 Not Found *)

\* the fetch of the cached bucket list has been answered
BucketListAnswered ==
  /\ call.method = "getBucketList"
  /\ requests # <<>>
  /\ requests[1].state = "answered"

BucketListNotFound == BucketListAnswered /\ requests[1].answer.status = 404

\* a POST to the refresh_buckets endpoint of the cluster and bucket type
RefreshStarted ==
  \E i \in 1..Len(requests) :
    /\ requests[i].type = "POST"
    /\ requests[i].url = RefreshBucketsUrl(store[call.args[1].v].id,
                                            store[call.args[2].v].bucketTypeId)

ResolvedWithEmptyList ==
  /\ promise.state = "fulfilled"
  /\ promise.value.t = "ref"
  /\ store[promise.value.v].model = "bucket-list"
  /\ store[promise.value.v].buckets = <<>>

----------------------------------------------------------------------------
(* C24: counter and set fields of a map *)

IsSetField(id) ==
  /\ store[id].model = "riak-object.map-field"
  /\ store[id].fieldType = "set"

\* an operation on a counter field or on a set field of a map has been built
LeafOperationOnField ==
  /\ AfterAction
  /\ BucketOf(store, ActionObject).props = "map"
  /\ \/ ActionType \in {"increment", "decrement"} /\ IsCounterField(ActionObject)
     \/ ActionType \in {"addElement", "removeElement"} /\ IsSetField(ActionObject)

\* {increment: n}, {decrement: n}, {add: e} or {remove: e}
ExpectedLeaf ==
  CASE ActionType = "increment" ->
         Obj(<<Member("increment", ActionProps.incrementBy)>>)
    [] ActionType = "decrement" ->
         Obj(<<Member("decrement", ActionProps.decrementBy)>>)
    [] ActionType = "addElement" -> Obj(<<Member("add", ActionItem)>>)
    [] ActionType = "removeElement" -> Obj(<<Member("remove", ActionItem)>>)

\* C24: on a map bucket, increment and decrement of a counter field F and
\* addElement and removeElement of a set field F build {update: {F: L}}, L
\* being {increment: n}, {decrement: n}, {add: e} or {remove: e}, inside one
\* update level per ancestor map of the field; directly under the root map
\* the document is {update: {F: L}} itself.
C24_FieldLeafIsUpdateOfItsName ==
  LeafOperationOnField =>
    LET names == AncestorNames(store, ActionObject)
        leaf == Obj(<<Member("update",
                        Obj(<<Member(store[ActionObject].name, ExpectedLeaf)>>))>>)
    IN /\ operation = ExpectedWrap(names, leaf)
       /\ names = <<>> => operation = leaf /\ result = Str(Stringify(leaf))

C24_Witness ==
  /\ LeafOperationOnField
  /\ ActionType = "addElement"
  /\ store[ActionObject].parentMap \in MapObjects(store)
  /\ result = Str("{\"update\":{\"b_set\":{\"add\":\"x\"}}}")

----------------------------------------------------------------------------
(* C21: the lists of a cluster in production mode *)

\* the fetch of the cached key list has been answered
KeyListAnswered ==
  /\ call.method = "getKeyList"
  /\ requests # <<>>
  /\ requests[1].state = "answered"

\* the cluster of the call is not in development mode
BucketListInProduction == ~store[call.args[1].v].developmentMode
KeyListInProduction == ~store[store[call.args[1].v].cluster].developmentMode

FailedWith(status) ==
  /\ ~IsSuccess(requests[1].answer)
  /\ requests[1].answer.status = status

NoRefreshRequest ==
  /\ Len(requests) = 1
  /\ \A i \in 1..Len(requests) : requests[i].type # "POST"

\* the promise is fulfilled with a list of the given model that has no
\* entries and whose cachePresent is false
ResolvedWithUncachedList(model, entries) ==
  /\ promise.state = "fulfilled"
  /\ promise.value.t = "ref"
  /\ store[promise.value.v].model = model
  /\ store[promise.value.v][entries] = <<>>
  /\ "cachePresent" \in DOMAIN store[promise.value.v]
  /\ store[promise.value.v].cachePresent = FALSE

Flag(id, attr) == attr \in DOMAIN store[id] /\ store[id][attr] = TRUE

----------------------------------------------------------------------------
(* C22: the promise of cacheRefresh *)

RefreshAnswered ==
  /\ call.method = "cacheRefresh"
  /\ requests # <<>>
  /\ requests[1].state = "answered"

AcceptedEmpty(answer) == answer.status = 202 /\ answer.textStatus = "parsererror"

\* C22: cacheRefresh fulfils its promise with the HTTP status when the
\* request succeeds and with 202 when the server answers 202 Accepted with an
\* empty body, which jQuery reports as a parsererror: the reject that follows
\* the resolve leaves the promise fulfilled.  Every other failure rejects
\* with the text status.
C22_AcceptedIsFulfilled ==
  RefreshAnswered =>
    LET answer == requests[1].answer
    IN /\ IsSuccess(answer) =>
            promise = [state |-> "fulfilled", value |-> Num(answer.status)]
       /\ AcceptedEmpty(answer) =>
            promise = [state |-> "fulfilled", value |-> Num(202)]
       /\ (~IsSuccess(answer) /\ ~AcceptedEmpty(answer)) =>
            promise = [state |-> "rejected", value |-> Str(answer.textStatus)]

C22_Witness ==
  /\ RefreshAnswered
  /\ AcceptedEmpty(requests[1].answer)
  /\ promise.state = "fulfilled"
  /\ call.args[1] = Str(RefreshKeysUrl("dev", "maps", "b1"))

----------------------------------------------------------------------------
(* C23: one schema of a name on a cluster *)

SchemasNamed(st, cluster, name) ==
  { id \in 1..Len(st) : /\ st[id].model = "search-schema"
                        /\ st[id].cluster = cluster
                        /\ st[id].name = name }

CreateSchemaStep == call = NoCall /\ call'.method = "createSchema"
GetClusterStep == call = NoCall /\ call'.method = "getCluster"

\* C23: createSchema(name, cluster, store) returns the schema the cluster
\* has under that name when there is one, and makes no record then; when
\* there is none it makes one record, of id clusterId/name.  getCluster, which
\* calls it for every index, makes no schema of a name the cluster has.
C23_CreatesOnlyWhenAbsent ==
  [][/\ CreateSchemaStep =>
          LET name == call'.args[1].v
              cluster == call'.args[2].v
              present == SchemasNamed(store, cluster, name)
          IN IF present # {}
               THEN /\ store' = store
                    /\ result'.t = "ref"
                    /\ result'.v \in present
               ELSE /\ Len(store') = Len(store) + 1
                    /\ \A id \in 1..Len(store) : store'[id] = store[id]
                    /\ result' = Ref(Len(store'))
                    /\ store'[Len(store')].model = "search-schema"
                    /\ store'[Len(store')].id = store[cluster].id \o "/" \o name
                    /\ store'[Len(store')].name = name
                    /\ store'[Len(store')].cluster = cluster
     /\ GetClusterStep =>
          \A cluster \in Clusters(store), name \in SchemaNames :
            /\ SchemasNamed(store, cluster, name) # {} =>
                 SchemasNamed(store', cluster, name) = SchemasNamed(store, cluster, name)
            /\ Cardinality(SchemasNamed(store', cluster, name)) <= 1]_vars

\* createSchema has returned a schema that an earlier call had made
C23_Witness ==
  /\ call.method = "createSchema"
  /\ result.t = "ref"
  /\ store[result.v].model = "search-schema"
  /\ store[result.v].name = call.args[1].v
  /\ result.v < Len(store)

----------------------------------------------------------------------------
(* C25: the promise of getRiakObject *)

\* the step is the answer to the fetch of getRiakObject
ObjectAnswerStep ==
  /\ call.method = "getRiakObject"
  /\ requests # <<>> /\ requests[1].state = "sent"
  /\ requests' # <<>> /\ requests'[1].state = "answered"

InvalidJson(answer) == answer.status = 200 /\ answer.textStatus = "parsererror"
Siblings(answer) == ~IsSuccess(answer) /\ answer.status = 300

\* the object records the step has made
ObjectsMade == ObjectIds(store') \ ObjectIds(store)

\* C25: the promise of getRiakObject is fulfilled with a created object when
\* the request succeeds, when it fails with status 200 and a parsererror and
\* when it fails with status 300, and one object record is made then; in the
\* 200/parsererror case the reject that follows leaves it fulfilled.  Every
\* other failure rejects it and makes no object.
C25_InvalidJsonAndSiblingsFulfil ==
  [][ObjectAnswerStep =>
       LET answer == requests'[1].answer
       IN IF IsSuccess(answer) \/ InvalidJson(answer) \/ Siblings(answer)
            THEN /\ promise'.state = "fulfilled"
                 /\ promise'.value.t = "ref"
                 /\ ObjectsMade = {promise'.value.v}
                 /\ store'[promise'.value.v].key = call.args[2].v
                 /\ store'[promise'.value.v].bucket = call.args[1]
            ELSE /\ promise'.state = "rejected"
                 /\ promise'.value = answer
                 /\ store' = store]_vars

\* a fetch of a map has been answered with status 200 and a body that is
\* not JSON, after another object had been fetched
C25_Witness ==
  /\ call.method = "getRiakObject"
  /\ requests # <<>>
  /\ requests[1].state = "answered"
  /\ InvalidJson(requests[1].answer)
  /\ promise.state = "fulfilled"
  /\ store[promise.value.v].model = "riak-object.map"
  /\ Cardinality(ObjectIds(store)) = 2

====
